---- MODULE Spec2Model ----
(***************************************************************************)
(* Model of the two project extractors of this repository:                 *)
(*   - the LLM-assisted extractor (src/unnamed/part_001)                   *)
(*   - the basic extractor        (src/contentExtractor.js)                *)
(*                                                                         *)
(* Text is modelled as a sequence of one-character strings.  A path string *)
(* is a sequence of tokens: entry names and the separator "/" (POSIX).     *)
(* A node of the file system is the sequence of entry names leading to it  *)
(* from the project root (the root is <<>>).                               *)
(***************************************************************************)
EXTENDS Integers, Sequences, FiniteSets, TLC

VARIABLES
    extractor,        \* which program runs: "llm" (part_001) or "basic" (contentExtractor.js)
    pc,               \* position of main()
    exitCode,         \* process exit status, -1 while running
    rootKind,         \* what the configured root path is: "missing", "file", "dir"
    tree,             \* the nodes below the root
    unreadable,       \* nodes whose readdir / readFile fails
    outputWritable,   \* whether mkdir + writeFile of the output succeed
    apiKey,           \* OPENAI_API_KEY as loaded from the environment
    filterLevel,      \* argv.filterLevel
    deleteComments,   \* argv.deleteComments
    focus,            \* argv.focus
    structure,        \* projectStructureForLLM / projectStructureString
    response,         \* what the remote endpoint answered, NoResponse if never asked
    requests,         \* number of axios.post calls made
    llmFilterResult,  \* {excludedFiles, suggestedFileName}
    fileEntries,      \* projectFiles
    fsCalls,          \* the readdir, readFile and stripComments calls made, in order
    markdown,         \* the assembled document
    written,          \* the file written to promts/, NotWritten if none
    text,             \* comment stripper harness: the input text
    stripped,         \* comment stripper harness: stripComments(text)
    rawName,          \* file-name harness: the name given
    nameFromRoot,     \* file-name harness: TRUE if rawName is the root directory's name
    nameOut,          \* file-name harness: the saved name component
    nParts,           \* harnesses: number of fragments appended so far
    firstRun,         \* what an earlier run over the same inputs produced, if there was one
    rootEntries,      \* context harness: the entries readdir yields for the root
    context           \* context harness: the result of readAdditionalContext

vars == <<extractor, pc, exitCode, rootKind, tree, unreadable, outputWritable,
          apiKey, filterLevel, deleteComments, focus, structure, response,
          requests, llmFilterResult, fileEntries, fsCalls, markdown, written,
          text, stripped, rawName, nameFromRoot, nameOut, nParts,
          firstRun, rootEntries, context>>

runVars == <<extractor, pc, exitCode, rootKind, tree, unreadable, outputWritable,
             apiKey, filterLevel, deleteComments, focus, structure, response,
             requests, llmFilterResult, fileEntries, fsCalls, markdown, written>>

harnessVars == <<text, stripped, rawName, nameFromRoot, nameOut, nParts,
                 firstRun, rootEntries, context>>

(***************************************************************************)
(* Bounds of the model                                                     *)
(***************************************************************************)
MaxNodes == 3        \* nodes below the root
MaxFaults == 1       \* unreadable nodes per run
MaxSuggested == 2    \* items in the excludedFiles array of a response
MaxLexemes == 5      \* fragments of a comment stripper input
MaxNameParts == 3    \* fragments of a file-name input
MaxRootEntries == 3  \* entries of the root directory in the context-reader runs

(***************************************************************************)
(* Generic helpers on sequences                                            *)
(***************************************************************************)
Min(a, b) == IF a < b THEN a ELSE b

Range(s) == {s[i] : i \in 1..Len(s)}

StartsWith(s, p) == Len(s) >= Len(p) /\ SubSeq(s, 1, Len(p)) = p

(***************************************************************************)
(* Numbers: a numeric option whose text is not a number is NaN, and every  *)
(* relational comparison with NaN is false                                 *)
(***************************************************************************)
NaN == -1000

NumLess(a, b) == a # NaN /\ b # NaN /\ a < b

NumGreater(a, b) == a # NaN /\ b # NaN /\ a > b

(***************************************************************************)
(* Characters                                                              *)
(***************************************************************************)
LineTerminators == {"\n", "\r"}

WhiteSpace == {" ", "\t", "\n", "\r"}

(***************************************************************************)
(* Program constants                                                       *)
(***************************************************************************)
STATIC_EXCLUDE_PATTERNS ==
    <<".DS_Store", "node_modules", ".git", ".gitignore", ".prettierrc",
      "package-lock.json", "yarn.lock", "prompts", "promts">>

EXCLUDE_PATTERNS ==
    <<".DS_Store", "node_modules", ".git", ".gitignore", ".prettierrc",
      "package-lock.json", "yarn.lock", "promts">>

KEY_PLACEHOLDER == "YOUR_OPENAI_API_KEY_PLACEHOLDER"

MinKeyLength == 10

MinFilterLevel == 0

MaxFilterLevel == 5

MaxNameLength == 50

DefaultNamePart == <<"a", "n", "a", "l", "y", "s", "i", "s">>

Sep == "/"

ExcludedPlaceholder ==
    <<"**File excluded by LLM filter. The system considers it unnecessary for the current analysis focus.**">>

ReadErrorText == <<"**Could not read file content: ", "EACCES", "**">>

BasicReadErrorText == <<"Error: Could not read file content. ", "EACCES">>

(***************************************************************************)
(* The file system below the root                                          *)
(***************************************************************************)
\* every node a tree of the model may contain, with its kind
Universe ==
    ( <<"a.js">>                            :> "file" ) @@
    ( <<"src">>                             :> "dir"  ) @@
    ( <<"src", "b.js">>                     :> "file" ) @@
    ( <<"src", "node_modules">>             :> "dir"  ) @@
    ( <<"src", "node_modules", "index.js">> :> "file" ) @@
    ( <<"node_modules">>                    :> "dir"  ) @@
    ( <<"node_modules", "index.js">>        :> "file" ) @@
    ( <<"yarn.lock">>                       :> "file" )

\* further nodes, named after the patterns the README lists as excluded by default
ReadmeUniverse ==
    ( <<"vendor">>             :> "dir"  ) @@
    ( <<"vendor", "index.js">> :> "file" ) @@
    ( <<"dist">>               :> "dir"  ) @@
    ( <<"dist", "app.min.js">> :> "file" ) @@
    ( <<".idea">>              :> "dir"  ) @@
    ( <<"Thumbs.db">>          :> "file" ) @@
    ( <<"app.min.js">>         :> "file" )

NodeKind == Universe @@ ReadmeUniverse

\* the order in which readdir yields the entries of one directory
ListingOrder ==
    <<"yarn.lock", "a.js", "node_modules", "src", "b.js", "index.js",
      ".idea", "dist", "Thumbs.db", "app.min.js", "vendor">>

\* what readFile yields for a file, by entry name
FileText(name) ==
    CASE name = "a.js"     -> <<"/", "/", " ", "c", "\n", "x", ";">>
      [] name = "b.js"     -> <<"x", " ", "/", "*", "c", "*", "/", "\n", "#", "y", "\n", "y">>
      [] name = "index.js" -> <<"x">>
      [] OTHER             -> <<"l">>

Root == <<>>

Parent(node) == SubSeq(node, 1, Len(node) - 1)

BaseName(node) == node[Len(node)]

PrefixClosed(nodes) ==
    \A n \in nodes : Len(n) > 1 => Parent(n) \in nodes

Trees == {t \in SUBSET (DOMAIN Universe) : PrefixClosed(t) /\ Cardinality(t) <= MaxNodes}

\* trees that hold entries named in the README next to ordinary ones
ReadmeTrees ==
    {t \in SUBSET (DOMAIN ReadmeUniverse \cup {<<"a.js">>, <<"node_modules">>}) :
        PrefixClosed(t) /\ Cardinality(t) <= MaxNodes}

IsDirectory(node) == node = Root \/ NodeKind[node] = "dir"

Rank(name) == CHOOSE i \in 1..Len(ListingOrder) : ListingOrder[i] = name

RECURSIVE SortByRank(_)
SortByRank(nodes) ==
    IF nodes = {} THEN <<>>
    ELSE LET first == CHOOSE n \in nodes :
                          \A m \in nodes : Rank(BaseName(n)) <= Rank(BaseName(m))
         IN  <<first>> \o SortByRank(nodes \ {first})

\* fs.readdir(dir, {withFileTypes: true}) when it succeeds
Readdir(dir) ==
    SortByRank({n \in tree : Len(n) = Len(dir) + 1 /\ Parent(n) = dir})

(***************************************************************************)
(* Paths as strings                                                        *)
(***************************************************************************)
RECURSIVE JoinTokens(_)
JoinTokens(segs) ==
    IF segs = <<>> THEN <<>>
    ELSE IF Len(segs) = 1 THEN <<segs[1]>>
    ELSE <<segs[1], Sep>> \o JoinTokens(Tail(segs))

\* path.relative(basePath, path.join(dir, entry.name)) for a node below the root
RelativePath(node) == JoinTokens(node)

\* the segments of a path string between separators, empty segments included
RECURSIVE SplitPath(_, _)
SplitPath(p, cur) ==
    IF p = <<>> THEN <<cur>>
    ELSE IF Head(p) = Sep THEN <<cur>> \o SplitPath(Tail(p), <<>>)
    ELSE SplitPath(Tail(p), Append(cur, Head(p)))

\* normalizeString of path.posix: drops "" and "." segments, resolves ".."
RECURSIVE NormalizeSegments(_, _, _)
NormalizeSegments(segs, res, allowAbove) ==
    IF segs = <<>> THEN res
    ELSE LET s == Head(segs) IN
         IF s = <<>> \/ s = <<".">> THEN NormalizeSegments(Tail(segs), res, allowAbove)
         ELSE IF s = <<"..">> THEN
             IF res # <<>> /\ res[Len(res)] # <<"..">>
             THEN NormalizeSegments(Tail(segs), SubSeq(res, 1, Len(res) - 1), allowAbove)
             ELSE IF allowAbove
                  THEN NormalizeSegments(Tail(segs), Append(res, s), allowAbove)
                  ELSE NormalizeSegments(Tail(segs), res, allowAbove)
         ELSE NormalizeSegments(Tail(segs), Append(res, s), allowAbove)

RECURSIVE JoinSegments(_)
JoinSegments(segs) ==
    IF segs = <<>> THEN <<>>
    ELSE IF Len(segs) = 1 THEN segs[1]
    ELSE segs[1] \o <<Sep>> \o JoinSegments(Tail(segs))

\* path.normalize (POSIX)
PathNormalize(p) ==
    IF p = <<>> THEN <<".">>
    ELSE LET isAbsolute == p[1] = Sep
             trailing   == p[Len(p)] = Sep
             body       == JoinSegments(NormalizeSegments(SplitPath(p, <<>>), <<>>, ~isAbsolute))
         IN  IF body = <<>>
             THEN IF isAbsolute THEN <<Sep>>
                  ELSE IF trailing THEN <<".", Sep>> ELSE <<".">>
             ELSE (IF isAbsolute THEN <<Sep>> ELSE <<>>) \o body \o
                  (IF trailing THEN <<Sep>> ELSE <<>>)

\* String.prototype.trim
RECURSIVE TrimLeft(_)
TrimLeft(s) ==
    IF s # <<>> /\ Head(s) \in WhiteSpace THEN TrimLeft(Tail(s)) ELSE s

RECURSIVE TrimRight(_)
TrimRight(s) ==
    IF s # <<>> /\ s[Len(s)] \in WhiteSpace THEN TrimRight(SubSeq(s, 1, Len(s) - 1)) ELSE s

Trim(s) == TrimRight(TrimLeft(s))

(***************************************************************************)
(* Comment stripping                                                       *)
(***************************************************************************)
\* position of the first "*/" at or after j, 0 if there is none
RECURSIVE FindBlockEnd(_, _)
FindBlockEnd(s, j) ==
    IF j + 1 > Len(s) THEN 0
    ELSE IF s[j] = "*" /\ s[j + 1] = "/" THEN j
    ELSE FindBlockEnd(s, j + 1)

\* replace(/\/\*[\s\S]*?\*\//gm, ''), scanning from position i
RECURSIVE RemoveBlockComments(_, _)
RemoveBlockComments(s, i) ==
    IF i > Len(s) THEN <<>>
    ELSE IF i + 1 <= Len(s) /\ s[i] = "/" /\ s[i + 1] = "*" /\ FindBlockEnd(s, i + 2) # 0
    THEN RemoveBlockComments(s, FindBlockEnd(s, i + 2) + 2)
    ELSE <<s[i]>> \o RemoveBlockComments(s, i + 1)

\* position of the first line terminator at or after i, Len(s) + 1 if there is none
RECURSIVE LineEnd(_, _)
LineEnd(s, i) ==
    IF i > Len(s) THEN i
    ELSE IF s[i] \in LineTerminators THEN i
    ELSE LineEnd(s, i + 1)

\* replace(/(?<!:)\/\/.*$/gm, '') when lookbehind, replace(/\/\/.*$/gm, '') otherwise
RECURSIVE RemoveLineComments(_, _, _)
RemoveLineComments(s, i, lookbehind) ==
    IF i > Len(s) THEN <<>>
    ELSE IF /\ i + 1 <= Len(s) /\ s[i] = "/" /\ s[i + 1] = "/"
            /\ ~(lookbehind /\ i > 1 /\ s[i - 1] = ":")
    THEN RemoveLineComments(s, LineEnd(s, i), lookbehind)
    ELSE <<s[i]>> \o RemoveLineComments(s, i + 1, lookbehind)

\* replace(/#.*$/gm, '')
RECURSIVE RemoveHashComments(_, _)
RemoveHashComments(s, i) ==
    IF i > Len(s) THEN <<>>
    ELSE IF s[i] = "#" THEN RemoveHashComments(s, LineEnd(s, i))
    ELSE <<s[i]>> \o RemoveHashComments(s, i + 1)

\* the last line terminator of the whitespace run that starts at j, best if none
RECURSIVE LastTerminatorInRun(_, _, _)
LastTerminatorInRun(s, j, best) ==
    IF j > Len(s) \/ s[j] \notin WhiteSpace THEN best
    ELSE LastTerminatorInRun(s, j + 1, IF s[j] \in LineTerminators THEN j ELSE best)

AtLineStart(s, i) == i = 1 \/ s[i - 1] \in LineTerminators

\* replace(/^\s*[\r\n]/gm, '')
RECURSIVE RemoveEmptyLines(_, _)
RemoveEmptyLines(s, i) ==
    IF i > Len(s) THEN <<>>
    ELSE IF AtLineStart(s, i) /\ LastTerminatorInRun(s, i, 0) # 0
    THEN RemoveEmptyLines(s, LastTerminatorInRun(s, i, 0) + 1)
    ELSE <<s[i]>> \o RemoveEmptyLines(s, i + 1)

stripComments_LinesFirst(content) ==
    LET noLines  == RemoveLineComments(content, 1, TRUE)
        noHashes == RemoveHashComments(noLines, 1)
        noBlocks == RemoveBlockComments(noHashes, 1)
    IN  RemoveEmptyLines(noBlocks, 1)

\* stripComments of the LLM-assisted extractor
stripComments(content) ==
    LET noBlocks == RemoveBlockComments(content, 1)
        noLines  == RemoveLineComments(noBlocks, 1, TRUE)
        noHashes == RemoveHashComments(noLines, 1)
    IN  RemoveEmptyLines(noHashes, 1)

\* stripComments of the basic extractor
stripCommentsBasic(codeContent) ==
    LET noLines  == RemoveLineComments(codeContent, 1, FALSE)
        noBlocks == RemoveBlockComments(noLines, 1)
    IN  RemoveEmptyLines(noBlocks, 1)

(***************************************************************************)
(* Tree walks                                                              *)
(***************************************************************************)
Call(op, node) == [op |-> op, node |-> node]

EntryLine(depth, node) ==
    [kind |-> "entry", depth |-> depth, name |-> BaseName(node),
     isDir |-> IsDirectory(node), path |-> node]

ErrorLine(depth, dir) ==
    [kind |-> "error", depth |-> depth, name |-> "Error reading directory",
     isDir |-> TRUE, path |-> dir]

\* only the first pattern of the list is compared
StaticNameMatch_FirstOnly(name, patterns) ==
    name = patterns[1]

StaticNameMatch(name, patterns) ==
    \E k \in 1..Len(patterns) : name = patterns[k]

StaticPrefixMatch(relativePath, patterns) ==
    \E k \in 1..Len(patterns) : StartsWith(relativePath, <<patterns[k], Sep>>)

\* generateFolderStructureString of the LLM-assisted extractor; the result
\* holds the lines of the returned string and the readdir calls made
RECURSIVE generateFolderStructureString(_, _)
RECURSIVE StructureEntries(_, _, _)
generateFolderStructureString(dir, depth) ==
    IF dir \in unreadable
    THEN [structure |-> <<ErrorLine(depth, dir)>>, calls |-> <<Call("readdir", dir)>>]
    ELSE StructureEntries(Readdir(dir), depth,
                          [structure |-> <<>>, calls |-> <<Call("readdir", dir)>>])

StructureEntries(entries, depth, acc) ==
    IF entries = <<>> THEN acc
    ELSE LET entry == Head(entries)
             relativePath == RelativePath(entry)
         IN  IF StaticNameMatch(BaseName(entry), STATIC_EXCLUDE_PATTERNS)
             THEN StructureEntries(Tail(entries), depth, acc)
             ELSE IF StaticPrefixMatch(relativePath, STATIC_EXCLUDE_PATTERNS)
             THEN StructureEntries(Tail(entries), depth, acc)
             ELSE LET sub == IF IsDirectory(entry)
                             THEN generateFolderStructureString(entry, depth + 1)
                             ELSE [structure |-> <<>>, calls |-> <<>>]
                  IN  StructureEntries(Tail(entries), depth,
                          [structure |-> acc.structure \o <<EntryLine(depth, entry)>>
                                            \o sub.structure,
                           calls |-> acc.calls \o sub.calls])

\* the static test is applied to directories only
StaticallyExcluded_DirectoriesOnly(entry, relativePath) ==
    /\ IsDirectory(entry)
    /\ \E k \in 1..Len(STATIC_EXCLUDE_PATTERNS) :
           LET pattern == STATIC_EXCLUDE_PATTERNS[k] IN
               \/ BaseName(entry) = pattern
               \/ relativePath = <<pattern>>
               \/ StartsWith(relativePath, <<pattern, Sep>>)

\* the static test of readProjectFiles
StaticallyExcluded(entry, relativePath) ==
    \E k \in 1..Len(STATIC_EXCLUDE_PATTERNS) :
        LET pattern == STATIC_EXCLUDE_PATTERNS[k] IN
            \/ BaseName(entry) = pattern
            \/ relativePath = <<pattern>>
            \/ (IsDirectory(entry) /\ StartsWith(relativePath, <<pattern, Sep>>))
            \/ (~IsDirectory(entry) /\ StartsWith(relativePath, <<pattern, Sep>>))

\* the absolute entry path is looked up instead of the relative one
DynamicallyExcluded_AbsolutePath(relativePath, llmExcludedPathsSet) ==
    (<<Sep>> \o relativePath) \in llmExcludedPathsSet

\* a path of the set also excludes everything below it
DynamicallyExcluded_UnderDirectory(relativePath, llmExcludedPathsSet) ==
    \/ relativePath \in llmExcludedPathsSet
    \/ \E p \in llmExcludedPathsSet : StartsWith(relativePath, p \o <<Sep>>)

\* the dynamic test of readProjectFiles
DynamicallyExcluded(relativePath, llmExcludedPathsSet) ==
    relativePath \in llmExcludedPathsSet

FileEntry(relativePath, content, excludedByLLM, error) ==
    [path |-> relativePath, content |-> content,
     excludedByLLM |-> excludedByLLM, error |-> error]

\* readProjectFiles; acc holds fileEntries and the readdir / readFile calls made
RECURSIVE readProjectFiles(_, _, _, _)
RECURSIVE ReadEntries(_, _, _, _)
readProjectFiles(dir, removeCommentsFlag, llmExcludedPathsSet, acc) ==
    LET listed == [acc EXCEPT !.calls = Append(@, Call("readdir", dir))] IN
    IF dir \in unreadable THEN listed
    ELSE ReadEntries(Readdir(dir), removeCommentsFlag, llmExcludedPathsSet, listed)

ReadEntries(entries, removeCommentsFlag, llmExcludedPathsSet, acc) ==
    IF entries = <<>> THEN acc
    ELSE LET entry == Head(entries)
             relativePath == PathNormalize(RelativePath(entry))
             rest == Tail(entries)
         IN  IF StaticallyExcluded(entry, relativePath)
             THEN ReadEntries(rest, removeCommentsFlag, llmExcludedPathsSet, acc)
             ELSE IF IsDirectory(entry)
             THEN ReadEntries(rest, removeCommentsFlag, llmExcludedPathsSet,
                      readProjectFiles(entry, removeCommentsFlag, llmExcludedPathsSet, acc))
             ELSE IF DynamicallyExcluded(relativePath, llmExcludedPathsSet)
             THEN ReadEntries(rest, removeCommentsFlag, llmExcludedPathsSet,
                      [acc EXCEPT !.entries =
                          Append(@, FileEntry(relativePath, ExcludedPlaceholder, TRUE, FALSE))])
             ELSE LET read == [acc EXCEPT !.calls = Append(@, Call("readFile", entry))]
                      raw == FileText(BaseName(entry))
                      content == IF removeCommentsFlag THEN stripComments(raw) ELSE raw
                  IN  IF entry \in unreadable
                      THEN ReadEntries(rest, removeCommentsFlag, llmExcludedPathsSet,
                               [read EXCEPT !.entries =
                                   Append(@, FileEntry(relativePath, ReadErrorText, FALSE, TRUE))])
                      ELSE ReadEntries(rest, removeCommentsFlag, llmExcludedPathsSet,
                               [read EXCEPT
                                   !.calls = IF removeCommentsFlag
                                             THEN Append(@, Call("stripComments", entry))
                                             ELSE @,
                                   !.entries =
                                   Append(@, FileEntry(relativePath, content, FALSE, FALSE))])

\* generateFolderStructureString of the basic extractor
RECURSIVE generateFolderStructureStringBasic(_, _)
RECURSIVE StructureEntriesBasic(_, _, _)
generateFolderStructureStringBasic(dirPath, depth) ==
    IF dirPath \in unreadable \/ rootKind # "dir"
    THEN [structure |-> <<ErrorLine(depth + 1, dirPath)>>,
          calls |-> <<Call("readdir", dirPath)>>]
    ELSE StructureEntriesBasic(Readdir(dirPath), depth,
                               [structure |-> <<>>, calls |-> <<Call("readdir", dirPath)>>])

StructureEntriesBasic(entries, depth, acc) ==
    IF entries = <<>> THEN acc
    ELSE LET entry == Head(entries) IN
         IF StaticNameMatch(BaseName(entry), EXCLUDE_PATTERNS)
         THEN StructureEntriesBasic(Tail(entries), depth, acc)
         ELSE LET sub == IF IsDirectory(entry)
                         THEN generateFolderStructureStringBasic(entry, depth + 1)
                         ELSE [structure |-> <<>>, calls |-> <<>>]
              IN  StructureEntriesBasic(Tail(entries), depth,
                      [structure |-> acc.structure \o <<EntryLine(depth, entry)>>
                                        \o sub.structure,
                       calls |-> acc.calls \o sub.calls])

\* readDirectoryContentsRecursive followed by the path.relative mapping of
\* prepareProjectContentForAnalysis
RECURSIVE readDirectoryContentsRecursive(_, _, _)
RECURSIVE ReadEntriesBasic(_, _, _)
readDirectoryContentsRecursive(dirPath, shouldRemoveComments, acc) ==
    LET listed == [acc EXCEPT !.calls = Append(@, Call("readdir", dirPath))] IN
    IF dirPath \in unreadable \/ rootKind # "dir" THEN listed
    ELSE ReadEntriesBasic(Readdir(dirPath), shouldRemoveComments, listed)

ReadEntriesBasic(entries, shouldRemoveComments, acc) ==
    IF entries = <<>> THEN acc
    ELSE LET entry == Head(entries)
             rest == Tail(entries)
         IN  IF StaticNameMatch(BaseName(entry), EXCLUDE_PATTERNS)
             THEN ReadEntriesBasic(rest, shouldRemoveComments, acc)
             ELSE IF IsDirectory(entry)
             THEN ReadEntriesBasic(rest, shouldRemoveComments,
                      readDirectoryContentsRecursive(entry, shouldRemoveComments, acc))
             ELSE LET read == [acc EXCEPT !.calls = Append(@, Call("readFile", entry))]
                      raw == FileText(BaseName(entry))
                      content == IF shouldRemoveComments THEN stripCommentsBasic(raw) ELSE raw
                  IN  IF entry \in unreadable
                      THEN ReadEntriesBasic(rest, shouldRemoveComments,
                               [read EXCEPT !.entries =
                                   Append(@, FileEntry(RelativePath(entry), BasicReadErrorText,
                                                       FALSE, TRUE))])
                      ELSE ReadEntriesBasic(rest, shouldRemoveComments,
                               [read EXCEPT
                                   !.calls = IF shouldRemoveComments
                                             THEN Append(@, Call("stripComments", entry))
                                             ELSE @,
                                   !.entries =
                                   Append(@, FileEntry(RelativePath(entry), content,
                                                       FALSE, FALSE))])

(***************************************************************************)
(* The remote suggestion                                                   *)
(***************************************************************************)
NullName == [null |-> TRUE, value |-> <<>>]

StringName(chars) == [null |-> FALSE, value |-> chars]

EmptySuggestion == [excludedFiles |-> <<>>, suggestedFileName |-> NullName]

NoResponse ==
    [kind |-> "none",
     excludedFiles |-> [kind |-> "absent", items |-> <<>>],
     suggestedFileName |-> [kind |-> "absent", value |-> <<>>]]

\* the placeholder is not recognised
KeyUnusable_NoPlaceholder(key) ==
    \/ key.length = 0
    \/ key.length < MinKeyLength

\* !OPENAI_API_KEY || OPENAI_API_KEY === placeholder || OPENAI_API_KEY.length < 10
KeyUnusable(key) ==
    \/ key.length = 0
    \/ key.value = KEY_PLACEHOLDER
    \/ key.length < MinKeyLength

\* replace(/\s+/g, joiner): the first character of every whitespace run becomes
\* the joiner, the rest of the run disappears
ReplaceWhitespaceRuns(s, joiner) ==
    LET kept == SelectSeq([i \in 1..Len(s) |-> i],
                          LAMBDA i : s[i] \notin WhiteSpace \/ i = 1 \/ s[i - 1] \notin WhiteSpace)
    IN  [k \in 1..Len(kept) |-> IF s[kept[k]] \in WhiteSpace THEN joiner ELSE s[kept[k]]]

\* .filter(item => typeof item === 'string').map(p => path.normalize(p.trim()))
RECURSIVE NormalizedStringItems(_)
NormalizedStringItems(items) ==
    IF items = <<>> THEN <<>>
    ELSE IF Head(items).isString
    THEN <<PathNormalize(Trim(Head(items).value))>> \o NormalizedStringItems(Tail(items))
    ELSE NormalizedStringItems(Tail(items))

\* the payload is used whether or not the call and the parse succeeded
ParseLLMResponse_IgnoresFailure(resp) ==
    [excludedFiles |->
         IF resp.excludedFiles.kind = "array"
         THEN NormalizedStringItems(resp.excludedFiles.items)
         ELSE <<>>,
     suggestedFileName |->
         IF resp.suggestedFileName.kind = "string" /\ resp.suggestedFileName.value # <<>>
         THEN StringName(ReplaceWhitespaceRuns(Trim(resp.suggestedFileName.value), "-"))
         ELSE NullName]

\* whitespace runs of the suggested name are joined with an underscore
ParseLLMResponse_Underscore(resp) ==
    IF resp.kind \in {"transportError", "httpError", "missingFields", "invalidJson", "jsonNull"}
    THEN EmptySuggestion
    ELSE [excludedFiles |->
              IF resp.excludedFiles.kind = "array"
              THEN NormalizedStringItems(resp.excludedFiles.items)
              ELSE <<>>,
          suggestedFileName |->
              IF resp.suggestedFileName.kind = "string" /\ resp.suggestedFileName.value # <<>>
              THEN StringName(ReplaceWhitespaceRuns(Trim(resp.suggestedFileName.value), "_"))
              ELSE NullName]

\* what getLLMFilteredExclusions makes of the answer to its request
ParseLLMResponse(resp) ==
    IF resp.kind \in {"transportError", "httpError", "missingFields"}
    THEN EmptySuggestion                       \* outer catch
    ELSE IF resp.kind \in {"invalidJson", "jsonNull"}
    THEN EmptySuggestion                       \* inner catch, result left as initialised
    ELSE [excludedFiles |->
              IF resp.excludedFiles.kind = "array"
              THEN NormalizedStringItems(resp.excludedFiles.items)
              ELSE <<>>,
          suggestedFileName |->
              IF resp.suggestedFileName.kind = "string" /\ resp.suggestedFileName.value # <<>>
              THEN StringName(ReplaceWhitespaceRuns(Trim(resp.suggestedFileName.value), "-"))
              ELSE NullName]

\* whether getLLMFilteredExclusions reaches its axios.post
SendsRequest(key, level) == ~KeyUnusable(key) /\ level # 0

\* getLLMFilteredExclusions, given the answer the endpoint gives if asked
getLLMFilteredExclusions(key, level, resp) ==
    IF KeyUnusable(key) THEN EmptySuggestion
    ELSE IF level = 0 THEN EmptySuggestion
    ELSE ParseLLMResponse(resp)

(***************************************************************************)
(* The output file name                                                    *)
(***************************************************************************)
RootDirName ==
    <<"f", "i", "l", "e", "s", "_", "t", "o", "_", "e", "x", "t", "r", "a", "c", "t">>

ProjectLiteral == <<"p", "r", "o", "j", "e", "c", "t">>

NameChars ==
    {"a", "b", "c", "d", "e", "f", "g", "h", "i", "j", "k", "l", "m", "n", "o", "p", "q",
     "r", "s", "t", "u", "v", "w", "x", "y", "z", "M", "P", "0", "1", "_", "-"}

\* replace(/[^\w\-_]/g, '')
KeepNameChars(s) == SelectSeq(s, LAMBDA c : c \in NameChars)

\* slice(0, n)
Slice(s, n) == SubSeq(s, 1, Min(n, Len(s)))

\* the length cap is missing
SanitizeNamePart_NoSlice(name) ==
    KeepNameChars(ReplaceWhitespaceRuns(name, "_"))

SanitizeNamePart(name) ==
    Slice(KeepNameChars(ReplaceWhitespaceRuns(name, "_")), MaxNameLength)

\* baseNamePart of savePromptToFile
BaseNamePart(suggestedFileName, rootBaseName) ==
    LET projectDirName == IF rootBaseName = <<>> THEN ProjectLiteral ELSE rootBaseName
        chosen == IF suggestedFileName.null \/ suggestedFileName.value = <<>>
                  THEN projectDirName
                  ELSE suggestedFileName.value
        sanitized == SanitizeNamePart(chosen)
    IN  IF sanitized = <<>> THEN DefaultNamePart ELSE sanitized

(***************************************************************************)
(* Document assembly                                                       *)
(***************************************************************************)
\* path.extname(file.path).substring(1).toLowerCase() || 'text'
LanguageOf(relativePath) ==
    IF relativePath[Len(relativePath)] \in {"a.js", "b.js", "index.js", "app.min.js"} THEN "js"
    ELSE IF relativePath[Len(relativePath)] = "Thumbs.db" THEN "db"
    ELSE IF relativePath[Len(relativePath)] = "yarn.lock" THEN "lock"
    ELSE "text"

RenderFile(file) ==
    IF file.excludedByLLM
    THEN [path |-> file.path, fence |-> FALSE, lang |-> "", body |-> file.content]
    ELSE IF file.error
    THEN [path |-> file.path, fence |-> TRUE, lang |-> "text", body |-> file.content]
    ELSE [path |-> file.path, fence |-> TRUE, lang |-> LanguageOf(file.path),
          body |-> Trim(file.content)]

RenderFiles(files) == [i \in 1..Len(files) |-> RenderFile(files[i])]

\* new Date() of a first run, and of a run that follows an earlier one
Stamps == {"20260101_000000"}

LaterStamps == {"20260102_000000"}

Clock == IF firstRun.done THEN LaterStamps ELSE Stamps

\* the title carries the time of the run
AssembleAnalysisMarkdown_Dated(customFocusPrompt, level, suggestion, listing, files) ==
    <<[sec |-> "title", date |-> CHOOSE now \in Clock : TRUE]>>
    \o (IF Trim(customFocusPrompt) # <<>>
        THEN <<[sec |-> "focus", text |-> Trim(customFocusPrompt)]>>
        ELSE <<>>)
    \o (IF NumGreater(level, 0)
        THEN <<[sec |-> "filter", level |-> level, paths |-> suggestion.excludedFiles]>>
        ELSE <<>>)
    \o <<[sec |-> "structure", lines |-> listing]>>
    \o <<[sec |-> "files", files |-> RenderFiles(files)]>>

\* the filtering summary is written before the focus section
AssembleAnalysisMarkdown_FilterFirst(customFocusPrompt, level, suggestion, listing, files) ==
    <<[sec |-> "title"]>>
    \o (IF NumGreater(level, 0)
        THEN <<[sec |-> "filter", level |-> level, paths |-> suggestion.excludedFiles]>>
        ELSE <<>>)
    \o (IF Trim(customFocusPrompt) # <<>>
        THEN <<[sec |-> "focus", text |-> Trim(customFocusPrompt)]>>
        ELSE <<>>)
    \o <<[sec |-> "structure", lines |-> listing]>>
    \o <<[sec |-> "files", files |-> RenderFiles(files)]>>

\* the filtering summary lists only the paths that have an excluded entry
AssembleAnalysisMarkdown_SummaryOfEntries(customFocusPrompt, level, suggestion, listing, files) ==
    <<[sec |-> "title"]>>
    \o (IF Trim(customFocusPrompt) # <<>>
        THEN <<[sec |-> "focus", text |-> Trim(customFocusPrompt)]>>
        ELSE <<>>)
    \o (IF NumGreater(level, 0)
        THEN <<[sec |-> "filter", level |-> level,
                paths |-> SelectSeq(suggestion.excludedFiles,
                              LAMBDA p : \E i \in 1..Len(files) :
                                  files[i].excludedByLLM /\ files[i].path = PathNormalize(p))]>>
        ELSE <<>>)
    \o <<[sec |-> "structure", lines |-> listing]>>
    \o <<[sec |-> "files", files |-> RenderFiles(files)]>>

\* the string composition of generateAnalysisMarkdown, section by section
AssembleAnalysisMarkdown(customFocusPrompt, level, suggestion, listing, files) ==
    <<[sec |-> "title"]>>
    \o (IF Trim(customFocusPrompt) # <<>>
        THEN <<[sec |-> "focus", text |-> Trim(customFocusPrompt)]>>
        ELSE <<>>)
    \o (IF NumGreater(level, 0)
        THEN <<[sec |-> "filter", level |-> level, paths |-> suggestion.excludedFiles]>>
        ELSE <<>>)
    \o <<[sec |-> "structure", lines |-> listing]>>
    \o <<[sec |-> "files", files |-> RenderFiles(files)]>>

\* the string composition of generateProjectMarkdown
AssembleProjectMarkdown(listing, files) ==
    <<[sec |-> "title"],
      [sec |-> "structure", lines |-> listing],
      [sec |-> "files",
       files |-> [i \in 1..Len(files) |->
                     [path |-> files[i].path, fence |-> TRUE,
                      lang |-> LanguageOf(files[i].path),
                      body |-> Trim(files[i].content)]]]>>

NotWritten == [done |-> FALSE, stamp |-> "", base |-> <<>>, content |-> <<>>]

\* no earlier run
NoFirstRun ==
    [done |-> FALSE, response |-> NoResponse, fileEntries |-> <<>>, structure |-> <<>>,
     markdown |-> <<>>, written |-> NotWritten]

\* readAdditionalContext not called yet
NoContext ==
    [done |-> FALSE, readmeContent |-> [null |-> TRUE, value |-> <<>>],
     memoryBankFiles |-> <<>>, mdFiles |-> <<>>, reads |-> <<>>, rootListed |-> FALSE]

(***************************************************************************)
(* Inputs                                                                  *)
(***************************************************************************)
Keys ==
    { [value |-> "",                        length |-> 0],
      [value |-> KEY_PLACEHOLDER,           length |-> 31],
      [value |-> "sk-short",                length |-> 8],
      [value |-> "sk-0123456789abcdef",     length |-> 19] }

\* --filterLevel is parsed as a number: -1, 0, 1, 5, 6, or NaN for a text such as "abc"
FilterLevels ==
    {MinFilterLevel - 1, MinFilterLevel, MinFilterLevel + 1, MaxFilterLevel,
     MaxFilterLevel + 1, NaN}

Focuses == { <<>>, <<"w">> }

FaultSets(nodes) == {f \in SUBSET (nodes \cup {Root}) : Cardinality(f) <= MaxFaults}

\* the entries a response may list, in the order it lists them
SuggestionItems ==
    << [isString |-> TRUE,  value |-> <<"a.js">>],
       [isString |-> TRUE,  value |-> <<"src", "/", "b.js">>],
       [isString |-> TRUE,  value |-> <<"src">>],
       [isString |-> TRUE,  value |-> <<"node_modules", "/", "index.js">>],
       [isString |-> FALSE, value |-> <<"a.js">>] >>

RECURSIVE SubSeqsOf(_)
SubSeqsOf(s) ==
    IF s = <<>> THEN {<<>>}
    ELSE LET rest == SubSeqsOf(Tail(s)) IN rest \cup {<<Head(s)>> \o r : r \in rest}

SuggestedArrays == {a \in SubSeqsOf(SuggestionItems) : Len(a) <= MaxSuggested}

SuggestedNames ==
    { [kind |-> "absent",    value |-> <<>>],
      [kind |-> "notString", value |-> <<>>],
      [kind |-> "string",    value |-> <<"M", "y", " ", "P", "r", "o", "j", "e", "c", "t">>],
      [kind |-> "string",    value |-> <<"!", " ">>] }

Responses ==
    { [kind |-> k, excludedFiles |-> e,
       suggestedFileName |-> [kind |-> "absent", value |-> <<>>]] :
          k \in {"transportError", "httpError", "missingFields", "invalidJson", "jsonNull"},
          e \in { [kind |-> "absent", items |-> <<>>],
                  [kind |-> "array", items |-> <<SuggestionItems[1]>>] } }
    \cup
    { [kind |-> "json", excludedFiles |-> e, suggestedFileName |-> n] :
          e \in { [kind |-> "absent", items |-> <<>>], [kind |-> "notArray", items |-> <<>>] }
                \cup { [kind |-> "array", items |-> a] : a \in SuggestedArrays },
          n \in SuggestedNames }

(***************************************************************************)
(* The run                                                                 *)
(***************************************************************************)
HarnessIdle ==
    /\ text = <<>>
    /\ stripped = [done |-> FALSE, value |-> <<>>]
    /\ rawName = <<>>
    /\ nameFromRoot = FALSE
    /\ nameOut = [done |-> FALSE, value |-> <<>>]
    /\ nParts = 0
    /\ firstRun = NoFirstRun
    /\ rootEntries = <<>>
    /\ context = NoContext

Init ==
    /\ extractor = "llm"
    /\ pc = "boot"
    /\ exitCode = -1
    /\ rootKind = "missing"
    /\ tree = {}
    /\ unreadable = {}
    /\ outputWritable = TRUE
    /\ apiKey = [value |-> "", length |-> 0]
    /\ filterLevel = 0
    /\ deleteComments = FALSE
    /\ focus = <<>>
    /\ structure = <<>>
    /\ response = NoResponse
    /\ requests = 0
    /\ llmFilterResult = EmptySuggestion
    /\ fileEntries = <<>>
    /\ fsCalls = <<>>
    /\ markdown = <<>>
    /\ written = NotWritten
    /\ HarnessIdle

\* one of the two programs is started: the environment it finds (the root, the
\* tree, the failing nodes, the output directory, OPENAI_API_KEY) and its arguments
Launch ==
    /\ pc = "boot"
    /\ extractor' \in {"llm", "basic"}
    /\ rootKind' \in {"missing", "file", "dir"}
    /\ tree' \in (IF rootKind' = "dir" THEN Trees ELSE {{}})
    /\ unreadable' \in (IF rootKind' = "dir" THEN FaultSets(tree') ELSE {{}})
    /\ outputWritable' \in BOOLEAN
    /\ apiKey' \in (IF extractor' = "llm" THEN Keys ELSE {[value |-> "", length |-> 0]})
    /\ filterLevel' \in (IF extractor' = "llm" THEN FilterLevels ELSE {0})
    /\ deleteComments' \in BOOLEAN
    /\ focus' \in (IF extractor' = "llm" THEN Focuses ELSE {<<>>})
    /\ pc' = "start"
    /\ UNCHANGED <<exitCode, structure, response, requests, llmFilterResult, fileEntries,
                   fsCalls, markdown, written>>
    /\ UNCHANGED harnessVars

\* a start of one of the two programs in a chosen part of the environments and arguments
LaunchWith(extractors, trees, keys, levels, focuses) ==
    /\ pc = "boot"
    /\ extractor' \in extractors
    /\ rootKind' = "dir"
    /\ tree' \in trees
    /\ unreadable' \in FaultSets(tree')
    /\ outputWritable' = TRUE
    /\ apiKey' \in (IF extractor' = "llm" THEN keys ELSE {[value |-> "", length |-> 0]})
    /\ filterLevel' \in (IF extractor' = "llm" THEN levels ELSE {0})
    /\ deleteComments' \in BOOLEAN
    /\ focus' \in (IF extractor' = "llm" THEN focuses ELSE {<<>>})
    /\ pc' = "start"
    /\ UNCHANGED <<exitCode, structure, response, requests, llmFilterResult, fileEntries,
                   fsCalls, markdown, written>>
    /\ UNCHANGED harnessVars

\* the yargs check of main; a NaN level passes both comparisons
ArgvValid ==
    /\ rootKind = "dir"
    /\ ~(NumLess(filterLevel, MinFilterLevel) \/ NumGreater(filterLevel, MaxFilterLevel))

ArgvRejected ==
    /\ extractor = "llm" /\ pc = "start"
    /\ ~ArgvValid
    /\ pc' = "exited"
    /\ exitCode' = 1
    /\ UNCHANGED <<extractor, rootKind, tree, unreadable, outputWritable, apiKey,
                   filterLevel, deleteComments, focus, structure, response, requests,
                   llmFilterResult, fileEntries, fsCalls, markdown, written>>
    /\ UNCHANGED harnessVars

ArgvAccepted ==
    /\ extractor = "llm" /\ pc = "start"
    /\ ArgvValid
    /\ pc' = "structure"
    /\ UNCHANGED <<extractor, exitCode, rootKind, tree, unreadable, outputWritable, apiKey,
                   filterLevel, deleteComments, focus, structure, response, requests,
                   llmFilterResult, fileEntries, fsCalls, markdown, written>>
    /\ UNCHANGED harnessVars

\* a directory that cannot be listed ends the run with a failure
BuildStructure_Throws ==
    /\ extractor = "llm" /\ pc = "structure"
    /\ LET pass == generateFolderStructureString(Root, 0)
           thrown == \E i \in 1..Len(pass.structure) : pass.structure[i].kind = "error"
       IN  /\ structure' = IF thrown THEN structure ELSE pass.structure
           /\ fsCalls' = fsCalls \o pass.calls
           /\ pc' = IF thrown THEN "exited" ELSE "filter"
           /\ exitCode' = IF thrown THEN 1 ELSE exitCode
    /\ UNCHANGED <<extractor, rootKind, tree, unreadable, outputWritable, apiKey,
                   filterLevel, deleteComments, focus, response, requests,
                   llmFilterResult, fileEntries, markdown, written>>
    /\ UNCHANGED harnessVars

\* generateAnalysisMarkdown: the first pass
BuildStructure ==
    /\ extractor = "llm" /\ pc = "structure"
    /\ LET pass == generateFolderStructureString(Root, 0) IN
           /\ structure' = pass.structure
           /\ fsCalls' = fsCalls \o pass.calls
    /\ pc' = "filter"
    /\ UNCHANGED <<extractor, exitCode, rootKind, tree, unreadable, outputWritable, apiKey,
                   filterLevel, deleteComments, focus, response, requests,
                   llmFilterResult, fileEntries, markdown, written>>
    /\ UNCHANGED harnessVars

\* what the endpoint may answer: anything, or what it answered to the earlier run
\* when the run repeats one with a deterministic endpoint
MockedResponses == IF firstRun.done THEN {firstRun.response} ELSE Responses

\* the condition under which generateAnalysisMarkdown calls getLLMFilteredExclusions
FilterRequested == NumGreater(filterLevel, 0) /\ ~KeyUnusable(apiKey)

\* the request is sent whatever the filter level
AskLLMFilter_NoLevelGate ==
    /\ extractor = "llm" /\ pc = "filter"
    /\ ~KeyUnusable(apiKey)
    /\ \E resp \in Responses :
           /\ response' = resp
           /\ requests' = requests + 1
           /\ llmFilterResult' = ParseLLMResponse(resp)
    /\ pc' = "read"
    /\ UNCHANGED <<extractor, exitCode, rootKind, tree, unreadable, outputWritable, apiKey,
                   filterLevel, deleteComments, focus, structure, fileEntries, fsCalls,
                   markdown, written>>
    /\ UNCHANGED harnessVars

\* a request that fails is sent a second time
AskLLMFilter_Retries ==
    /\ extractor = "llm" /\ pc = "filter"
    /\ FilterRequested
    /\ \E resp \in MockedResponses :
           /\ response' = resp
           /\ requests' = IF resp.kind \in {"transportError", "httpError"}
                           THEN requests + 2 ELSE requests + 1
           /\ llmFilterResult' = getLLMFilteredExclusions(apiKey, filterLevel, resp)
    /\ pc' = "read"
    /\ UNCHANGED <<extractor, exitCode, rootKind, tree, unreadable, outputWritable, apiKey,
                   filterLevel, deleteComments, focus, structure, fileEntries, fsCalls,
                   markdown, written>>
    /\ UNCHANGED harnessVars

\* generateAnalysisMarkdown: the remote filter is asked
AskLLMFilter ==
    /\ extractor = "llm" /\ pc = "filter"
    /\ FilterRequested
    /\ \E resp \in MockedResponses :
           /\ response' = IF SendsRequest(apiKey, filterLevel) THEN resp ELSE response
           /\ requests' = IF SendsRequest(apiKey, filterLevel) THEN requests + 1 ELSE requests
           /\ llmFilterResult' = getLLMFilteredExclusions(apiKey, filterLevel, resp)
    /\ pc' = "read"
    /\ UNCHANGED <<extractor, exitCode, rootKind, tree, unreadable, outputWritable, apiKey,
                   filterLevel, deleteComments, focus, structure, fileEntries, fsCalls,
                   markdown, written>>
    /\ UNCHANGED harnessVars

\* generateAnalysisMarkdown: the remote filter is not asked
SkipLLMFilter ==
    /\ extractor = "llm" /\ pc = "filter"
    /\ ~FilterRequested
    /\ llmFilterResult' = EmptySuggestion
    /\ pc' = "read"
    /\ UNCHANGED <<extractor, exitCode, rootKind, tree, unreadable, outputWritable, apiKey,
                   filterLevel, deleteComments, focus, structure, response, requests,
                   fileEntries, fsCalls, markdown, written>>
    /\ UNCHANGED harnessVars

\* new Set(llmFilterResult.excludedFiles.map(p => path.normalize(p)))
LLMExcludedPathsSet(suggestion) ==
    {PathNormalize(suggestion.excludedFiles[i]) : i \in 1..Len(suggestion.excludedFiles)}

\* an unreadable root is not caught by the second pass and reaches the catch of main
ReadFiles_Throws ==
    /\ extractor = "llm" /\ pc = "read"
    /\ LET pass == readProjectFiles(Root, deleteComments, LLMExcludedPathsSet(llmFilterResult),
                                    [entries |-> <<>>, calls |-> <<>>]) IN
           /\ fileEntries' = pass.entries
           /\ fsCalls' = fsCalls \o pass.calls
    /\ pc' = IF Root \in unreadable THEN "exited" ELSE "assemble"
    /\ exitCode' = IF Root \in unreadable THEN 1 ELSE exitCode
    /\ UNCHANGED <<extractor, rootKind, tree, unreadable, outputWritable, apiKey,
                   filterLevel, deleteComments, focus, structure, response, requests,
                   llmFilterResult, markdown, written>>
    /\ UNCHANGED harnessVars

\* the walk ends at the first file that cannot be read
ReadFiles_StopsAtFailedRead ==
    /\ extractor = "llm" /\ pc = "read"
    /\ LET pass == readProjectFiles(Root, deleteComments, LLMExcludedPathsSet(llmFilterResult),
                                    [entries |-> <<>>, calls |-> <<>>])
           failed == {i \in 1..Len(pass.entries) : pass.entries[i].error}
           last == IF failed = {} THEN Len(pass.entries)
                   ELSE CHOOSE i \in failed : \A j \in failed : i <= j
       IN  /\ fileEntries' = SubSeq(pass.entries, 1, last)
           /\ fsCalls' = fsCalls \o pass.calls
    /\ pc' = "assemble"
    /\ UNCHANGED <<extractor, exitCode, rootKind, tree, unreadable, outputWritable, apiKey,
                   filterLevel, deleteComments, focus, structure, response, requests,
                   llmFilterResult, markdown, written>>
    /\ UNCHANGED harnessVars

\* the second pass strips comments whatever the flag says
ReadFiles_AlwaysStrips ==
    /\ extractor = "llm" /\ pc = "read"
    /\ LET pass == readProjectFiles(Root, TRUE, LLMExcludedPathsSet(llmFilterResult),
                                    [entries |-> <<>>, calls |-> <<>>]) IN
           /\ fileEntries' = pass.entries
           /\ fsCalls' = fsCalls \o pass.calls
    /\ pc' = "assemble"
    /\ UNCHANGED <<extractor, exitCode, rootKind, tree, unreadable, outputWritable, apiKey,
                   filterLevel, deleteComments, focus, structure, response, requests,
                   llmFilterResult, markdown, written>>
    /\ UNCHANGED harnessVars

\* generateAnalysisMarkdown: the second pass
ReadFiles ==
    /\ extractor = "llm" /\ pc = "read"
    /\ LET pass == readProjectFiles(Root, deleteComments, LLMExcludedPathsSet(llmFilterResult),
                                    [entries |-> <<>>, calls |-> <<>>]) IN
           /\ fileEntries' = pass.entries
           /\ fsCalls' = fsCalls \o pass.calls
    /\ pc' = "assemble"
    /\ UNCHANGED <<extractor, exitCode, rootKind, tree, unreadable, outputWritable, apiKey,
                   filterLevel, deleteComments, focus, structure, response, requests,
                   llmFilterResult, markdown, written>>
    /\ UNCHANGED harnessVars

\* generateAnalysisMarkdown: the composition of the document
Assemble ==
    /\ extractor = "llm" /\ pc = "assemble"
    /\ markdown' = AssembleAnalysisMarkdown(focus, filterLevel, llmFilterResult,
                                            structure, fileEntries)
    /\ pc' = "save"
    /\ UNCHANGED <<extractor, exitCode, rootKind, tree, unreadable, outputWritable, apiKey,
                   filterLevel, deleteComments, focus, structure, response, requests,
                   llmFilterResult, fileEntries, fsCalls, written>>
    /\ UNCHANGED harnessVars

\* savePromptToFile, then the end of main
SavePrompt ==
    /\ extractor = "llm" /\ pc = "save"
    /\ \E now \in Clock :
           written' = IF outputWritable
                      THEN [done |-> TRUE, stamp |-> now,
                            base |-> BaseNamePart(llmFilterResult.suggestedFileName, RootDirName),
                            content |-> markdown]
                      ELSE written
    /\ pc' = "exited"
    /\ exitCode' = 0
    /\ UNCHANGED <<extractor, rootKind, tree, unreadable, outputWritable, apiKey,
                   filterLevel, deleteComments, focus, structure, response, requests,
                   llmFilterResult, fileEntries, fsCalls, markdown>>
    /\ UNCHANGED harnessVars

\* generateProjectMarkdown of the basic extractor: the structure pass
BasicBuildStructure ==
    /\ extractor = "basic" /\ pc = "start"
    /\ LET pass == generateFolderStructureStringBasic(Root, 0) IN
           /\ structure' = pass.structure
           /\ fsCalls' = fsCalls \o pass.calls
    /\ pc' = "read"
    /\ UNCHANGED <<extractor, exitCode, rootKind, tree, unreadable, outputWritable, apiKey,
                   filterLevel, deleteComments, focus, response, requests,
                   llmFilterResult, fileEntries, markdown, written>>
    /\ UNCHANGED harnessVars

\* generateProjectMarkdown of the basic extractor: prepareProjectContentForAnalysis
BasicReadFiles ==
    /\ extractor = "basic" /\ pc = "read"
    /\ LET pass == readDirectoryContentsRecursive(Root, deleteComments,
                                                  [entries |-> <<>>, calls |-> <<>>]) IN
           /\ fileEntries' = pass.entries
           /\ fsCalls' = fsCalls \o pass.calls
    /\ pc' = "assemble"
    /\ UNCHANGED <<extractor, exitCode, rootKind, tree, unreadable, outputWritable, apiKey,
                   filterLevel, deleteComments, focus, structure, response, requests,
                   llmFilterResult, markdown, written>>
    /\ UNCHANGED harnessVars

\* generateProjectMarkdown of the basic extractor: the composition
BasicAssemble ==
    /\ extractor = "basic" /\ pc = "assemble"
    /\ markdown' = AssembleProjectMarkdown(structure, fileEntries)
    /\ pc' = "save"
    /\ UNCHANGED <<extractor, exitCode, rootKind, tree, unreadable, outputWritable, apiKey,
                   filterLevel, deleteComments, focus, structure, response, requests,
                   llmFilterResult, fileEntries, fsCalls, written>>
    /\ UNCHANGED harnessVars

\* saveMarkdownToFile of the basic extractor, then the end of main
BasicSave ==
    /\ extractor = "basic" /\ pc = "save"
    /\ \E now \in Clock :
           written' = IF outputWritable
                      THEN [done |-> TRUE, stamp |-> now,
                            base |-> <<"project-overview">>, content |-> markdown]
                      ELSE written
    /\ pc' = "exited"
    /\ exitCode' = 0
    /\ UNCHANGED <<extractor, rootKind, tree, unreadable, outputWritable, apiKey,
                   filterLevel, deleteComments, focus, structure, response, requests,
                   llmFilterResult, fileEntries, fsCalls, markdown>>
    /\ UNCHANGED harnessVars

\* the program is started again on the same tree, with the same flags, the same
\* credential and an endpoint that answers as before; only the clock has moved
Rerun ==
    /\ pc = "exited"
    /\ ~firstRun.done
    /\ firstRun' = [done |-> TRUE, response |-> response, fileEntries |-> fileEntries,
                    structure |-> structure, markdown |-> markdown, written |-> written]
    /\ pc' = "start"
    /\ exitCode' = -1
    /\ structure' = <<>>
    /\ response' = NoResponse
    /\ requests' = 0
    /\ llmFilterResult' = EmptySuggestion
    /\ fileEntries' = <<>>
    /\ fsCalls' = <<>>
    /\ markdown' = <<>>
    /\ written' = NotWritten
    /\ UNCHANGED <<extractor, rootKind, tree, unreadable, outputWritable, apiKey,
                   filterLevel, deleteComments, focus>>
    /\ UNCHANGED <<text, stripped, rawName, nameFromRoot, nameOut, nParts, rootEntries, context>>

Next ==
    \/ Launch
    \/ ArgvRejected
    \/ ArgvAccepted
    \/ BuildStructure
    \/ AskLLMFilter
    \/ SkipLLMFilter
    \/ ReadFiles
    \/ Assemble
    \/ SavePrompt
    \/ BasicBuildStructure
    \/ BasicReadFiles
    \/ BasicAssemble
    \/ BasicSave

Spec == Init /\ [][Next]_vars

\* main runs to its end: every await returns and the single control flow goes on.
\* This is WF_vars(Next) with ENABLED <<Next>>_vars written out: every step of a
\* run changes pc, and a step is possible exactly when pc # "exited".
FairSpec == Spec /\ ([]<>(pc = "exited") \/ []<><<Next>>_vars)

\* a run, possibly followed by a second run over the same inputs
RerunNext == Next \/ Rerun

SpecRerun == Init /\ [][RerunNext]_vars

(***************************************************************************)
(* Both walks on trees that hold the entries the README names              *)
(***************************************************************************)
LaunchOnReadmeTree ==
    /\ pc = "boot"
    /\ LaunchWith({"llm", "basic"}, ReadmeTrees, {[value |-> "", length |-> 0]}, {0}, {<<>>})

ReadmeNext ==
    \/ LaunchOnReadmeTree
    \/ ArgvAccepted
    \/ BuildStructure
    \/ SkipLLMFilter
    \/ ReadFiles
    \/ BasicBuildStructure
    \/ BasicReadFiles

SpecReadme == Init /\ [][ReadmeNext]_vars

(***************************************************************************)
(* Runs in which the endpoint spells one path in various ways              *)
(***************************************************************************)
\* spellings of the paths of a.js and src/b.js that a response may carry, with the
\* node each one stands for and the way it differs from the root-relative path
PathSpellings ==
    { [value |-> <<"a.js">>,                          node |-> <<"a.js">>,        differs |-> "none"],
      [value |-> <<" ", "a.js", " ">>,                node |-> <<"a.js">>,        differs |-> "padding"],
      [value |-> <<".", "/", "a.js">>,                node |-> <<"a.js">>,        differs |-> "dotSegment"],
      [value |-> <<"a.js", "/">>,                     node |-> <<"a.js">>,        differs |-> "trailingSeparator"],
      [value |-> <<"A.JS">>,                          node |-> <<"a.js">>,        differs |-> "letterCase"],
      [value |-> <<"src", "/", "b.js">>,              node |-> <<"src", "b.js">>, differs |-> "none"],
      [value |-> <<"src", "/", ".", "/", "b.js">>,    node |-> <<"src", "b.js">>, differs |-> "dotSegment"],
      [value |-> <<"src", "/", "/", "b.js">>,         node |-> <<"src", "b.js">>, differs |-> "doubleSeparator"],
      [value |-> <<"src", "\\", "b.js">>,             node |-> <<"src", "b.js">>, differs |-> "separatorStyle"],
      [value |-> <<"src", "/", "b.js", "/">>,         node |-> <<"src", "b.js">>, differs |-> "trailingSeparator"],
      [value |-> <<"Src", "/", "b.js">>,              node |-> <<"src", "b.js">>, differs |-> "letterCase"] }

SpelledResponses ==
    { [kind |-> "json",
       excludedFiles |-> [kind |-> "array", items |-> <<[isString |-> TRUE, value |-> sp.value]>>],
       suggestedFileName |-> [kind |-> "absent", value |-> <<>>]] : sp \in PathSpellings }

LaunchForMatching ==
    /\ pc = "boot"
    /\ LaunchWith({"llm"}, Trees, {[value |-> "sk-0123456789abcdef", length |-> 19]},
                  {MinFilterLevel + 1}, {<<>>})

\* generateAnalysisMarkdown: the remote filter is asked and names one path
AskLLMFilterSpelled ==
    /\ extractor = "llm" /\ pc = "filter"
    /\ FilterRequested
    /\ \E resp \in SpelledResponses :
           /\ response' = IF SendsRequest(apiKey, filterLevel) THEN resp ELSE response
           /\ requests' = IF SendsRequest(apiKey, filterLevel) THEN requests + 1 ELSE requests
           /\ llmFilterResult' = getLLMFilteredExclusions(apiKey, filterLevel, resp)
    /\ pc' = "read"
    /\ UNCHANGED <<extractor, exitCode, rootKind, tree, unreadable, outputWritable, apiKey,
                   filterLevel, deleteComments, focus, structure, fileEntries, fsCalls,
                   markdown, written>>
    /\ UNCHANGED harnessVars

MatchNext ==
    \/ LaunchForMatching
    \/ ArgvAccepted
    \/ BuildStructure
    \/ AskLLMFilterSpelled
    \/ ReadFiles

SpecMatch == Init /\ [][MatchNext]_vars

(***************************************************************************)
(* Runs with focus texts of every shape                                    *)
(***************************************************************************)
\* values of --focus: none, a word, blanks only, a word between blanks, two words
FocusTexts ==
    { <<>>, <<"w">>, <<" ">>, <<" ", "w", " ">>, <<"w", " ", "w">> }

LaunchForDocument ==
    /\ pc = "boot"
    /\ LaunchWith({"llm"}, {t \in Trees : Cardinality(t) <= 1},
                  {[value |-> "", length |-> 0],
                   [value |-> "sk-0123456789abcdef", length |-> 19]},
                  {l \in FilterLevels : ~(NumLess(l, MinFilterLevel) \/ NumGreater(l, MaxFilterLevel))},
                  FocusTexts)

DocumentNext ==
    \/ LaunchForDocument
    \/ ArgvAccepted
    \/ BuildStructure
    \/ AskLLMFilter
    \/ SkipLLMFilter
    \/ ReadFiles
    \/ Assemble

SpecDocument == Init /\ [][DocumentNext]_vars

(***************************************************************************)
(* readAdditionalContext on arbitrary root directories.  Entry names are   *)
(* sequences of characters; the file system is case-sensitive (POSIX).     *)
(***************************************************************************)
\* String.prototype.toLowerCase, for the letters the names are written with
LowerOf(c) ==
    CASE c = "R" -> "r" [] c = "E" -> "e" [] c = "A" -> "a" [] c = "D" -> "d"
      [] c = "M" -> "m" [] c = "N" -> "n" [] c = "O" -> "o" [] c = "T" -> "t"
      [] c = "S" -> "s" [] OTHER -> c

ToLowerCase(s) == [i \in 1..Len(s) |-> LowerOf(s[i])]

\* String.prototype.endsWith
EndsWith(s, suffix) ==
    Len(s) >= Len(suffix) /\ SubSeq(s, Len(s) - Len(suffix) + 1, Len(s)) = suffix

\* String.prototype.includes
Includes(s, part) ==
    \E i \in 1..(Len(s) - Len(part) + 1) : SubSeq(s, i, i + Len(part) - 1) = part

\* the characters of the static patterns
PatternChars(pattern) ==
    CASE pattern = ".DS_Store"         -> <<".", "D", "S", "_", "S", "t", "o", "r", "e">>
      [] pattern = "node_modules"      -> <<"n", "o", "d", "e", "_", "m", "o", "d", "u", "l", "e", "s">>
      [] pattern = ".git"              -> <<".", "g", "i", "t">>
      [] pattern = ".gitignore"        -> <<".", "g", "i", "t", "i", "g", "n", "o", "r", "e">>
      [] pattern = ".prettierrc"       -> <<".", "p", "r", "e", "t", "t", "i", "e", "r", "r", "c">>
      [] pattern = "package-lock.json" -> <<"p", "a", "c", "k", "a", "g", "e", "-", "l", "o", "c", "k",
                                            ".", "j", "s", "o", "n">>
      [] pattern = "yarn.lock"         -> <<"y", "a", "r", "n", ".", "l", "o", "c", "k">>
      [] pattern = "prompts"           -> <<"p", "r", "o", "m", "p", "t", "s">>
      [] pattern = "promts"            -> <<"p", "r", "o", "m", "t", "s">>

\* STATIC_EXCLUDE_PATTERNS.some(ex => entry.name.includes(ex))
IncludesStaticPattern(name) ==
    \E k \in 1..Len(STATIC_EXCLUDE_PATTERNS) :
        Includes(name, PatternChars(STATIC_EXCLUDE_PATTERNS[k]))

ReadmeName == <<"R", "E", "A", "D", "M", "E", ".", "m", "d">>

LowerReadmeName == <<"r", "e", "a", "d", "m", "e", ".", "m", "d">>

MdSuffix == <<".", "m", "d">>

MemoryBankName == <<"m", "e", "m", "o", "r", "y", "-", "b", "a", "n", "k">>

\* the names a root directory of the model may hold
ContextNames ==
    { ReadmeName,
      LowerReadmeName,
      <<"n", "o", "t", "e", "s", ".", "m", "d">>,
      <<"N", "O", "T", "E", "S", ".", "M", "D">>,
      <<"p", "r", "o", "m", "p", "t", "s", ".", "m", "d">>,
      <<"a", ".", "j", "s">>,
      <<"d", "o", "c", "s", ".", "m", "d">>,
      MemoryBankName }

\* the entries a root directory of the model may hold: docs.md and memory-bank are
\* directories, and a file may be unreadable
ContextEntries ==
    { [name |-> n, isFile |-> f, readable |-> r] :
          n \in ContextNames, f \in BOOLEAN, r \in BOOLEAN }

\* the one file of memory-bank/, when the directory is there
MemoryBankListing ==
    << [name |-> <<"c", "t", "x", ".", "m", "d">>, isFile |-> TRUE, readable |-> TRUE] >>

\* what readFile yields for a context file
ContextText == <<" ", "t", "\n">>

EntriesNamed(entries, name) == {i \in 1..Len(entries) : entries[i].name = name}

\* readFileIfExists: the file data, or null when the read fails
ReadFileIfExists(entries, name, relativePathName) ==
    IF \E i \in EntriesNamed(entries, name) : entries[i].isFile /\ entries[i].readable
    THEN [null |-> FALSE, name |-> name, path |-> relativePathName,
          content |-> Trim(ContextText)]
    ELSE [null |-> TRUE, name |-> name, path |-> relativePathName, content |-> <<>>]

\* the test of the root loop of readAdditionalContext
IsOtherMdFile(entry) ==
    /\ entry.isFile
    /\ EndsWith(ToLowerCase(entry.name), MdSuffix)
    /\ ToLowerCase(entry.name) # LowerReadmeName
    /\ ~IncludesStaticPattern(entry.name)

\* the test of the memory-bank loop
IsMemoryBankFile(entry) == entry.isFile /\ ~IncludesStaticPattern(entry.name)

\* the files pushed by a loop: the chosen entries that can be read
ReadSelected(listing, under, chosen) ==
    LET data(e) == ReadFileIfExists(listing, e.name, under \o e.name)
        readable == SelectSeq(chosen, LAMBDA e : ~data(e).null)
    IN  [files |-> [i \in 1..Len(readable) |-> data(readable[i])],
         reads |-> [i \in 1..Len(chosen) |-> chosen[i].name]]

\* readAdditionalContext; a root directory that readdir cannot list yields no other
\* markdown files
readAdditionalContext(entries, listable) ==
    LET readmeData == ReadFileIfExists(entries, ReadmeName, ReadmeName)
        bankThere == \E i \in EntriesNamed(entries, MemoryBankName) :
                         ~entries[i].isFile /\ entries[i].readable
        bank == IF bankThere
                THEN ReadSelected(MemoryBankListing, MemoryBankName \o <<"/">>,
                                  SelectSeq(MemoryBankListing, IsMemoryBankFile))
                ELSE [files |-> <<>>, reads |-> <<>>]
        others == IF listable THEN ReadSelected(entries, <<>>, SelectSeq(entries, IsOtherMdFile))
                  ELSE [files |-> <<>>, reads |-> <<>>]
    IN  [done |-> TRUE,
         readmeContent |-> IF readmeData.null THEN [null |-> TRUE, value |-> <<>>]
                           ELSE [null |-> FALSE, value |-> readmeData.content],
         memoryBankFiles |-> bank.files,
         mdFiles |-> others.files,
         reads |-> <<ReadmeName>> \o others.reads,
         rootListed |-> listable]

(***************************************************************************)
(* stripComments applied to arbitrary texts                                *)
(***************************************************************************)
RunIdle ==
    /\ extractor = "llm"
    /\ pc = "harness"
    /\ exitCode = -1
    /\ rootKind = "missing"
    /\ tree = {}
    /\ unreadable = {}
    /\ outputWritable = TRUE
    /\ apiKey = [value |-> "", length |-> 0]
    /\ filterLevel = 0
    /\ deleteComments = FALSE
    /\ focus = <<>>
    /\ structure = <<>>
    /\ response = NoResponse
    /\ requests = 0
    /\ llmFilterResult = EmptySuggestion
    /\ fileEntries = <<>>
    /\ fsCalls = <<>>
    /\ markdown = <<>>
    /\ written = NotWritten

\* the fragments the input texts are made of
Lexemes ==
    { <<"/">>, <<"*">>, <<"#">>, <<":">>, <<"\n">>, <<" ">>, <<"x">>,
      <<"/", "*">>, <<"*", "/">> }

StripInit == RunIdle /\ HarnessIdle

AppendLexeme ==
    /\ ~stripped.done
    /\ nParts < MaxLexemes
    /\ \E l \in Lexemes : text' = text \o l
    /\ nParts' = nParts + 1
    /\ UNCHANGED <<stripped, rawName, nameFromRoot, nameOut, firstRun, rootEntries, context>>
    /\ UNCHANGED runVars

StripText ==
    /\ ~stripped.done
    /\ stripped' = [done |-> TRUE, value |-> stripComments(text)]
    /\ UNCHANGED <<text, rawName, nameFromRoot, nameOut, nParts, firstRun, rootEntries, context>>
    /\ UNCHANGED runVars

StripNext == AppendLexeme \/ StripText

SpecStrip == StripInit /\ [][StripNext]_vars

(***************************************************************************)
(* The name component of the output file, for arbitrary names              *)
(***************************************************************************)
LongNamePart == [i \in 1..(MaxNameLength - 1) |-> "x"]

NameParts ==
    { <<"M", "y">>, <<" ">>, <<"\t">>, <<"P", "r", "o", "j", "e", "c", "t">>,
      <<"!">>, <<"-">>, <<"_">>, DefaultNamePart, LongNamePart }

NameInit == RunIdle /\ HarnessIdle

AppendNamePart ==
    /\ ~nameOut.done
    /\ nParts < MaxNameParts
    /\ \E p \in NameParts : rawName' = rawName \o p
    /\ nParts' = nParts + 1
    /\ UNCHANGED <<text, stripped, nameFromRoot, nameOut, firstRun, rootEntries, context>>
    /\ UNCHANGED runVars

\* rawName is the suggestedFileName of the response; the file is saved
SaveWithSuggestedName ==
    /\ ~nameOut.done
    /\ LET resp == [kind |-> "json",
                    excludedFiles |-> [kind |-> "absent", items |-> <<>>],
                    suggestedFileName |-> [kind |-> "string", value |-> rawName]]
           suggestion == ParseLLMResponse(resp)
       IN  nameOut' = [done |-> TRUE,
                       value |-> BaseNamePart(suggestion.suggestedFileName, RootDirName)]
    /\ nameFromRoot' = FALSE
    /\ UNCHANGED <<text, stripped, rawName, nParts, firstRun, rootEntries, context>>
    /\ UNCHANGED runVars

\* nothing is suggested and rawName is the name of the root directory; the file is saved
SaveWithRootName ==
    /\ ~nameOut.done
    /\ nameOut' = [done |-> TRUE, value |-> BaseNamePart(NullName, rawName)]
    /\ nameFromRoot' = TRUE
    /\ UNCHANGED <<text, stripped, rawName, nParts, firstRun, rootEntries, context>>
    /\ UNCHANGED runVars

NameNext == AppendNamePart \/ SaveWithSuggestedName \/ SaveWithRootName

SpecName == NameInit /\ [][NameNext]_vars

(***************************************************************************)
(* readAdditionalContext applied to arbitrary root directories             *)
(***************************************************************************)
ContextInit == RunIdle /\ HarnessIdle

\* one more entry in the root directory
AddRootEntry ==
    /\ ~context.done
    /\ Len(rootEntries) < MaxRootEntries
    /\ \E e \in ContextEntries :
           /\ EntriesNamed(rootEntries, e.name) = {}
           /\ rootEntries' = Append(rootEntries, e)
    /\ UNCHANGED <<text, stripped, rawName, nameFromRoot, nameOut, nParts, firstRun, context>>
    /\ UNCHANGED runVars

ReadContext ==
    /\ ~context.done
    /\ \E listable \in BOOLEAN : context' = readAdditionalContext(rootEntries, listable)
    /\ UNCHANGED <<text, stripped, rawName, nameFromRoot, nameOut, nParts, firstRun, rootEntries>>
    /\ UNCHANGED runVars

ContextNext == AddRootEntry \/ ReadContext

SpecContext == ContextInit /\ [][ContextNext]_vars

(***************************************************************************)
(* Properties                                                              *)
(***************************************************************************)
\* the static rule list of the program that runs
StaticRules ==
    IF extractor = "llm" THEN Range(STATIC_EXCLUDE_PATTERNS) ELSE Range(EXCLUDE_PATTERNS)

\* the second pass is over
WalkDone == pc \in {"assemble", "save"} \/ (pc = "exited" /\ exitCode = 0)

\* a node carries a static rule as its own name or as the name of an ancestor
UnderStaticRule(node) == \E k \in 1..Len(node) : node[k] \in StaticRules

\* every directory above the node can be listed
Reachable(node) == \A k \in 0..(Len(node) - 1) : SubSeq(node, 1, k) \notin unreadable

\* the files the second pass comes to
VisitedFiles ==
    {n \in tree : ~IsDirectory(n) /\ ~UnderStaticRule(n) /\ Reachable(n)}

EntriesFor(relativePath) ==
    {i \in 1..Len(fileEntries) : fileEntries[i].path = relativePath}

ReadsOf(node) ==
    {i \in 1..Len(fsCalls) : fsCalls[i] = Call("readFile", node)}

DynamicSet == LLMExcludedPathsSet(llmFilterResult)

\* C1: in both extractors no entry whose own name is a static rule, and no entry
\* below a directory whose name is a static rule, appears in the structure listing
\* or in the file-entry sequence.
C1_StaticExclusionTransitive ==
    /\ \A i \in 1..Len(structure) :
           structure[i].kind = "entry" => ~UnderStaticRule(structure[i].path)
    /\ \A i \in 1..Len(fileEntries) :
           \A k \in 1..Len(fileEntries[i].path) : fileEntries[i].path[k] \notin StaticRules

\* both passes are over on a tree that holds a file below a directory named by a
\* static rule, next to entries that are listed and read
C1_Witness ==
    /\ WalkDone
    /\ \E n \in tree : ~IsDirectory(n) /\ Len(n) > 1 /\ UnderStaticRule(Parent(n))
    /\ structure # <<>>
    /\ fileEntries # <<>>

\* C2 as stated: every file whose path is in the dynamic-exclusion set (and that lies
\* in directories that can be listed) has exactly one entry, marked excluded with the
\* placeholder, and is never read; every visited file whose path is not in the set
\* is read and has exactly one entry.
C2_EveryListedFileHasEntry ==
    (extractor = "llm" /\ WalkDone) =>
        /\ \A n \in tree :
               (~IsDirectory(n) /\ Reachable(n) /\ RelativePath(n) \in DynamicSet) =>
                   /\ Cardinality(EntriesFor(RelativePath(n))) = 1
                   /\ \A i \in EntriesFor(RelativePath(n)) :
                          /\ fileEntries[i].excludedByLLM
                          /\ fileEntries[i].content = ExcludedPlaceholder
                   /\ ReadsOf(n) = {}
        /\ \A n \in VisitedFiles :
               RelativePath(n) \notin DynamicSet =>
                   /\ Cardinality(EntriesFor(RelativePath(n))) = 1
                   /\ Cardinality(ReadsOf(n)) = 1
                   /\ \A i \in EntriesFor(RelativePath(n)) : ~fileEntries[i].excludedByLLM

\* C2 amended: every visited file whose path is in the dynamic-exclusion set has
\* exactly one entry, marked excluded with the placeholder, and is never read; every
\* visited file whose path is not in the set is read once and has exactly one entry,
\* a read-error entry if the read failed and an included one otherwise.
C2_VisitedFilesSplitByDynamicSet ==
    (extractor = "llm" /\ WalkDone) =>
        \A n \in VisitedFiles :
            /\ Cardinality(EntriesFor(RelativePath(n))) = 1
            /\ \A i \in EntriesFor(RelativePath(n)) :
                   IF RelativePath(n) \in DynamicSet
                   THEN /\ fileEntries[i].excludedByLLM
                        /\ ~fileEntries[i].error
                        /\ fileEntries[i].content = ExcludedPlaceholder
                        /\ ReadsOf(n) = {}
                   ELSE /\ ~fileEntries[i].excludedByLLM
                        /\ fileEntries[i].content # ExcludedPlaceholder
                        /\ Cardinality(ReadsOf(n)) = 1
                        /\ fileEntries[i].error <=> (n \in unreadable)

\* the second pass is over with one visited file in the set and one outside it
C2_Witness ==
    /\ extractor = "llm" /\ WalkDone
    /\ \E n \in VisitedFiles : RelativePath(n) \in DynamicSet
    /\ \E n \in VisitedFiles : RelativePath(n) \notin DynamicSet

\* C3: stripComments is idempotent: stripping its own output changes nothing.
C3_StripIdempotent ==
    stripped.done => stripComments(stripped.value) = stripped.value

\* C4: with filterLevel = 0 no remote request is ever sent, whatever the credential,
\* and the suggestion the second pass uses is empty.
C4_LevelZeroNeverAsks ==
    (extractor = "llm" /\ pc # "boot" /\ filterLevel = 0) =>
        /\ requests = 0
        /\ response.kind = "none"
        /\ llmFilterResult.excludedFiles = <<>>
        /\ llmFilterResult.suggestedFileName.null
        /\ (WalkDone => \A i \in 1..Len(fileEntries) : ~fileEntries[i].excludedByLLM)

\* a run at level 0 with a usable credential has finished its second pass
C4_Witness ==
    /\ extractor = "llm" /\ filterLevel = 0
    /\ apiKey.length >= MinKeyLength /\ apiKey.value # KEY_PLACEHOLDER
    /\ pc = "exited" /\ exitCode = 0
    /\ fileEntries # <<>>

\* the credential is unset, the placeholder, or too short
NoUsableCredential == apiKey.value \in {"", KEY_PLACEHOLDER, "sk-short"}

\* C5: with filterLevel in 1..5 and no usable credential, no remote request is sent,
\* the suggestion is empty, and the run goes on to write the output document and
\* to end with a success status (the output directory being writable).
C5_NoCredentialStillCompletes ==
    (/\ extractor = "llm" /\ pc = "start" /\ rootKind = "dir"
     /\ filterLevel \in 1..5 /\ NoUsableCredential /\ outputWritable)
    ~> (/\ pc = "exited" /\ exitCode = 0
        /\ written.done /\ written.content = markdown
        /\ requests = 0 /\ response.kind = "none"
        /\ llmFilterResult.excludedFiles = <<>>
        /\ llmFilterResult.suggestedFileName.null)

\* a run at a level in 1..5 with the placeholder credential has written its document
C5_Witness ==
    /\ extractor = "llm" /\ filterLevel \in 1..5
    /\ apiKey.value = KEY_PLACEHOLDER
    /\ pc = "exited" /\ exitCode = 0
    /\ written.done
    /\ requests = 0

\* the remote call failed or its payload could not be parsed
RemoteFailed ==
    response.kind \in {"transportError", "httpError", "missingFields", "invalidJson"}

\* C6: when the remote call fails or its payload is not parseable as JSON,
\* getLLMFilteredExclusions returns the empty suggestion without raising an error,
\* and the second pass reads every file that is not statically excluded: no entry
\* is excluded by the filter.
C6_RemoteFailureDegradesToEmpty ==
    (extractor = "llm" /\ RemoteFailed) =>
        /\ pc \in {"read", "assemble", "save", "exited"}
        /\ exitCode # 1
        /\ llmFilterResult.excludedFiles = <<>>
        /\ llmFilterResult.suggestedFileName.null
        /\ WalkDone =>
               /\ \A i \in 1..Len(fileEntries) : ~fileEntries[i].excludedByLLM
               /\ \A n \in VisitedFiles :
                      /\ Cardinality(ReadsOf(n)) = 1
                      /\ Cardinality(EntriesFor(RelativePath(n))) = 1

\* the payload was not valid JSON although it named a.js, and a.js was read
C6_Witness ==
    /\ extractor = "llm" /\ response.kind = "invalidJson"
    /\ response.excludedFiles.kind = "array"
    /\ WalkDone
    /\ <<"a.js">> \in VisitedFiles
    /\ ReadsOf(<<"a.js">>) # {}


\* C7: a run started on a valid root assembles and writes the output document under
\* any combination of unreadable directories, unreadable files and failed or
\* malformed remote responses (the output directory being writable), and none of
\* these errors leads to a fatal exit.
C7_ValidRootAlwaysProducesDocument ==
    /\ (extractor = "llm" /\ pc = "start" /\ ArgvValid /\ outputWritable)
           ~> (/\ pc = "exited" /\ exitCode = 0
               /\ written.done /\ written.content = markdown
               /\ Len(markdown) >= 3)
    /\ []((extractor = "llm" /\ pc # "boot" /\ ArgvValid) => exitCode # 1)

\* the document was written although the root could not be listed and the remote
\* call had failed
C7_Witness ==
    /\ extractor = "llm" /\ pc = "exited" /\ exitCode = 0
    /\ unreadable # {}
    /\ RemoteFailed
    /\ written.done

\* the root is a directory and the filter level is within 0..5
ValidSetup == rootKind = "dir" /\ filterLevel \in MinFilterLevel..MaxFilterLevel

\* C8: if the root does not exist, is not a directory, or the filter level is
\* outside 0..5, the run ends with a non-zero exit before any directory traversal,
\* any remote request and any output write.
C8_InvalidSetupAbortsFirst ==
    (extractor = "llm" /\ pc # "boot" /\ ~ValidSetup) =>
        /\ pc \in {"start", "exited"}
        /\ pc = "exited" => exitCode = 1
        /\ fsCalls = <<>>
        /\ structure = <<>>
        /\ fileEntries = <<>>
        /\ requests = 0
        /\ ~written.done

\* the response {"excludedFiles": ["a.js"], "suggestedFileName": "My Project"}
MyProjectResponse ==
    [kind |-> "json",
     excludedFiles |-> [kind |-> "array", items |-> <<[isString |-> TRUE, value |-> <<"a.js">>]>>],
     suggestedFileName |->
         [kind |-> "string", value |-> <<"M", "y", " ", "P", "r", "o", "j", "e", "c", "t">>]]

\* C9 as stated: on that response the entry of a.js is excluded by the filter and
\* the name component of the saved file is My_Project.
C9_NameIsMyUnderscoreProject ==
    (extractor = "llm" /\ response = MyProjectResponse /\ written.done) =>
        /\ \A i \in EntriesFor(<<"a.js">>) : fileEntries[i].excludedByLLM
        /\ written.base = <<"M", "y", "_", "P", "r", "o", "j", "e", "c", "t">>

\* C9 amended: on that response the entry of a.js is excluded by the filter and the
\* name component of the saved file is My-Project: the whitespace run was already
\* replaced by a hyphen when the response was parsed.
C9_NameIsMyHyphenProject ==
    (extractor = "llm" /\ response = MyProjectResponse /\ written.done) =>
        /\ <<"a.js">> \in VisitedFiles => Cardinality(EntriesFor(<<"a.js">>)) = 1
        /\ \A i \in EntriesFor(<<"a.js">>) : fileEntries[i].excludedByLLM
        /\ written.base = <<"M", "y", "-", "P", "r", "o", "j", "e", "c", "t">>

\* the document was saved after that response, with an entry for a.js
C9_Witness ==
    /\ extractor = "llm" /\ response = MyProjectResponse /\ written.done
    /\ EntriesFor(<<"a.js">>) # {}

\* the name savePromptToFile starts from
ChosenName ==
    IF nameFromRoot
    THEN IF rawName = <<>> THEN ProjectLiteral ELSE rawName
    ELSE IF Trim(rawName) = <<>> THEN RootDirName ELSE Trim(rawName)

\* no character of the chosen name survives the sanitization
NothingSurvives == \A i \in 1..Len(ChosenName) : ChosenName[i] \notin (NameChars \cup WhiteSpace)

NameComponentWellFormed ==
    /\ nameOut.value # <<>>
    /\ Len(nameOut.value) <= 50
    /\ \A i \in 1..Len(nameOut.value) : nameOut.value[i] \in NameChars

\* C10 as stated: the name component is non-empty, at most 50 characters, made of
\* word characters, hyphens and underscores, and it is 'analysis' exactly when
\* sanitization leaves nothing.
C10_DefaultExactlyWhenEmpty ==
    nameOut.done =>
        /\ NameComponentWellFormed
        /\ (nameOut.value = DefaultNamePart) <=> NothingSurvives

\* C10 amended: the name component is non-empty, at most 50 characters, made of
\* word characters, hyphens and underscores; it is 'analysis' whenever sanitization
\* leaves nothing, and otherwise only when the sanitized name itself reads 'analysis'.
C10_DefaultWhenEmpty ==
    nameOut.done =>
        /\ NameComponentWellFormed
        /\ NothingSurvives => nameOut.value = DefaultNamePart
        /\ (nameOut.value = DefaultNamePart /\ ~NothingSurvives) =>
               SelectSeq(ChosenName, LAMBDA c : c \in NameChars \cup WhiteSpace)
                   = DefaultNamePart

\* a name longer than the cap was cut to 50 characters
C10_Witness ==
    /\ nameOut.done
    /\ Len(rawName) > 50
    /\ Len(nameOut.value) = 50

ReadmeDefaultNames ==
    {"node_modules", "vendor", ".git", ".svn", "dist", "build", ".DS_Store", "Thumbs.db",
     "package-lock.json", "yarn.lock", "composer.lock", ".vscode", ".idea"}

\* the names of the model that match *.min.js or *.swp
ReadmeGlobNames == {"app.min.js"}

MatchesReadmeDefault(name) == name \in ReadmeDefaultNames \cup ReadmeGlobNames

\* C12: no entry named by the README's 'Excluded by Default' list (node_modules,
\* vendor, .git, .svn, dist, build, .DS_Store, Thumbs.db, the lock files, .vscode,
\* .idea, *.min.js, *.swp) appears in the structure listing or in the file entries.
C12_ReadmeDefaultsExcluded ==
    /\ \A i \in 1..Len(structure) :
           structure[i].kind = "entry" => ~MatchesReadmeDefault(structure[i].name)
    /\ \A i \in 1..Len(fileEntries) :
           \A k \in 1..Len(fileEntries[i].path) :
               ~MatchesReadmeDefault(fileEntries[i].path[k])

ReaddirsOf(node) ==
    {i \in 1..Len(fsCalls) : fsCalls[i] = Call("readdir", node)}

\* node lies below the directory dir
Below(node, dir) == Len(node) > Len(dir) /\ SubSeq(node, 1, Len(dir)) = dir

\* C13: a directory whose relative path is in the dynamic-exclusion set is still
\* traversed by the second pass (it is listed in both passes and has no entry of its
\* own), and every file below it whose own path is not in the set is read once and
\* has one entry that is not marked excluded.
C13_DirectoriesNeverMatched ==
    (extractor = "llm" /\ WalkDone) =>
        \A d \in tree :
            (/\ IsDirectory(d) /\ ~UnderStaticRule(d) /\ Reachable(d)
             /\ RelativePath(d) \in DynamicSet) =>
                /\ Cardinality(ReaddirsOf(d)) = 2
                /\ EntriesFor(RelativePath(d)) = {}
                /\ \A n \in VisitedFiles :
                       (Below(n, d) /\ RelativePath(n) \notin DynamicSet) =>
                           /\ Cardinality(ReadsOf(n)) = 1
                           /\ Cardinality(EntriesFor(RelativePath(n))) = 1
                           /\ \A i \in EntriesFor(RelativePath(n)) :
                                  /\ ~fileEntries[i].excludedByLLM
                                  /\ fileEntries[i].content # ExcludedPlaceholder

\* the set names the directory src, and src/b.js below it has been read
C13_Witness ==
    /\ extractor = "llm" /\ WalkDone
    /\ <<"src">> \in DynamicSet
    /\ <<"src", "b.js">> \in VisitedFiles
    /\ <<"src", "/", "b.js">> \notin DynamicSet
    /\ ReadsOf(<<"src", "b.js">>) # {}

\* the spelling the response carried
SpellingUsed ==
    CHOOSE sp \in PathSpellings : sp.value = response.excludedFiles.items[1].value

\* C14: a suggested path that differs from a file's root-relative path only in
\* separator style, a trailing separator, redundant './' segments (or doubled
\* separators, or surrounding blanks) matches it, so that the file's entry is
\* excluded by the filter; a path that differs in letter case does not match.
C14_SpellingsMatchUpToNormalization ==
    (extractor = "llm" /\ WalkDone /\ response.kind = "json") =>
        (SpellingUsed.node \in VisitedFiles =>
            \A i \in EntriesFor(RelativePath(SpellingUsed.node)) :
                fileEntries[i].excludedByLLM <=> (SpellingUsed.differs # "letterCase"))

\* what holds of the code on a POSIX host: blanks, './' segments and doubled
\* separators are normalized away; a backslash, a trailing separator and a change
\* of letter case are not
SpellingsMatchOnPosix ==
    (extractor = "llm" /\ WalkDone /\ response.kind = "json") =>
        (SpellingUsed.node \in VisitedFiles =>
            \A i \in EntriesFor(RelativePath(SpellingUsed.node)) :
                fileEntries[i].excludedByLLM <=>
                    (SpellingUsed.differs \in {"none", "padding", "dotSegment", "doubleSeparator"}))

\* a file has been read or a file entry emitted
SecondPassBegun ==
    fileEntries # <<>> \/ \E i \in 1..Len(fsCalls) : fsCalls[i].op = "readFile"

\* C15: in every run of the LLM-assisted extractor the structure listing is complete
\* when the remote request is sent and does not change afterwards; at most one
\* request is sent; the suggestion, and with it the dynamic-exclusion set, is set
\* before the second pass reads a file or emits an entry and never changes once it
\* has; the document is composed only after the second walk is complete.
C15_OneDirectionOneRequest ==
    /\ [](extractor = "llm" => requests <= 1)
    /\ [][extractor = "llm" =>
            /\ (requests' # requests) =>
                   /\ requests = 0 /\ requests' = 1
                   /\ structure = generateFolderStructureString(Root, 0).structure
                   /\ structure' = structure
                   /\ ~SecondPassBegun
            /\ (requests > 0) => structure' = structure
            /\ (llmFilterResult' # llmFilterResult) => (~SecondPassBegun /\ ~SecondPassBegun')
            /\ SecondPassBegun => llmFilterResult' = llmFilterResult
            /\ (markdown' # markdown) =>
                   /\ pc = "assemble"
                   /\ fileEntries' = fileEntries /\ fsCalls' = fsCalls
                   /\ \A n \in VisitedFiles : EntriesFor(RelativePath(n)) # {}
            /\ (markdown # <<>>) => (fileEntries' = fileEntries /\ fsCalls' = fsCalls)
       ]_vars

\* a run that sent its one request, excluded a file and composed the document
C15_Witness ==
    /\ extractor = "llm" /\ requests = 1
    /\ llmFilterResult.excludedFiles # <<>>
    /\ \E i \in 1..Len(fileEntries) : fileEntries[i].excludedByLLM
    /\ \E i \in 1..Len(fileEntries) : ~fileEntries[i].excludedByLLM
    /\ markdown # <<>>

\* the files whose read is attempted: visited and, in the LLM-assisted extractor,
\* not in the dynamic-exclusion set
FilesToRead ==
    {n \in VisitedFiles : extractor = "llm" => RelativePath(n) \notin DynamicSet}

\* the content of a read-error entry, which carries the message of the error
ErrorContent == IF extractor = "llm" THEN ReadErrorText ELSE BasicReadErrorText

\* C16: in both extractors a file whose read fails has exactly one entry, whose
\* content is the read-error text with the error message, and the walk goes on:
\* every visited file has exactly one entry of its own, and the files whose read
\* did not fail carry no error text.
C16_FailedReadDoesNotAbort ==
    WalkDone =>
        LET failed == FilesToRead \cap unreadable
        IN  /\ \A n \in failed :
                   /\ Cardinality(ReadsOf(n)) = 1
                   /\ Cardinality(EntriesFor(RelativePath(n))) = 1
                   /\ \A i \in EntriesFor(RelativePath(n)) :
                          /\ fileEntries[i].content = ErrorContent
                          /\ ~fileEntries[i].excludedByLLM
                          /\ extractor = "llm" => fileEntries[i].error
            /\ failed # {} =>
                   /\ Len(fileEntries) = Cardinality(VisitedFiles)
                   /\ \A m \in VisitedFiles \ failed :
                          /\ Cardinality(EntriesFor(RelativePath(m))) = 1
                          /\ \A j \in EntriesFor(RelativePath(m)) :
                                 fileEntries[j].content # ErrorContent

\* the read of a.js failed, and src/b.js, which comes later, has its entry after
\* the read-error entry
C16_Witness ==
    /\ WalkDone
    /\ <<"a.js">> \in FilesToRead \cap unreadable
    /\ <<"src", "b.js">> \in VisitedFiles
    /\ \E i \in EntriesFor(<<"a.js">>) :
           \E j \in EntriesFor(<<"src", "/", "b.js">>) : i < j

\* the directories whose listing is attempted and fails
FailedDirectories ==
    {d \in (tree \cup {Root}) \cap unreadable :
        IsDirectory(d) /\ ~UnderStaticRule(d) /\ Reachable(d)}

\* the nodes both passes come to
VisitedNodes == {n \in tree : ~UnderStaticRule(n) /\ Reachable(n)}

EntryLinesOf(node) ==
    {i \in 1..Len(structure) : structure[i].kind = "entry" /\ structure[i].path = node}

ErrorLinesOf(dir) ==
    {i \in 1..Len(structure) : structure[i].kind = "error" /\ structure[i].path = dir}

\* C17: a directory that cannot be listed is not fatal in either pass and counts as
\* empty: no node below it has a line in the structure listing or a file entry (the
\* listing records the failure in one line of its own), while every node outside
\* such directories keeps its line and every file outside them its entry, before
\* and after the directory in traversal order; the run does not end with a failure.
C17_UnreadableDirectoryIsEmpty ==
    /\ (ArgvValid /\ FailedDirectories # {}) => exitCode # 1
    /\ WalkDone =>
           \A d \in FailedDirectories :
               /\ Cardinality(ReaddirsOf(d)) = 2
               /\ Cardinality(ErrorLinesOf(d)) = 1
               /\ \A n \in tree :
                      Below(n, d) =>
                          /\ EntryLinesOf(n) = {}
                          /\ EntriesFor(RelativePath(n)) = {}
                          /\ ReadsOf(n) = {} /\ ReaddirsOf(n) = {}
               /\ \A n \in VisitedNodes : Cardinality(EntryLinesOf(n)) = 1
               /\ \A n \in VisitedFiles : Cardinality(EntriesFor(RelativePath(n))) = 1
               /\ Len(fileEntries) = Cardinality(VisitedFiles)

\* dist could not be listed; a.js before it and Thumbs.db after it have their
\* lines and their entries
C17_Witness ==
    /\ extractor = "llm" /\ WalkDone
    /\ <<"dist">> \in FailedDirectories
    /\ \E i \in EntriesFor(<<"a.js">>) : \E j \in EntriesFor(<<"Thumbs.db">>) : i < j
    /\ \E i \in EntryLinesOf(<<"a.js">>) : \E k \in EntryLinesOf(<<"dist">>) :
           \E j \in EntryLinesOf(<<"Thumbs.db">>) : i < k /\ k < j

\* the positions of the sections of a kind in the document
SectionsOf(kind) == {i \in 1..Len(markdown) : markdown[i].sec = kind}

SectionRank(kind) ==
    CASE kind = "title" -> 1 [] kind = "focus" -> 2 [] kind = "filter" -> 3
      [] kind = "structure" -> 4 [] kind = "files" -> 5

\* title, then focus, then filtering summary, then structure, then file contents,
\* each at most once, with title, structure and file contents always there
SectionsInOrder ==
    /\ \A i, j \in 1..Len(markdown) :
           i < j => SectionRank(markdown[i].sec) < SectionRank(markdown[j].sec)
    /\ SectionsOf("title") # {} /\ SectionsOf("structure") # {} /\ SectionsOf("files") # {}

\* the filtering summary is there exactly when filterLevel > 0 and lists the
\* dynamically excluded paths (the none-suggested note stands for an empty list)
FilterSummaryAsClaimed ==
    /\ (SectionsOf("filter") # {}) <=> NumGreater(filterLevel, 0)
    /\ \A i \in SectionsOf("filter") :
           /\ markdown[i].level = filterLevel
           /\ markdown[i].paths = llmFilterResult.excludedFiles
           /\ {PathNormalize(markdown[i].paths[k]) : k \in 1..Len(markdown[i].paths)} = DynamicSet

\* C18 as stated: the sections are in the order title, user focus, filtering
\* summary, structure, file contents; the user-focus section is there exactly
\* when the focus text is non-empty and carries it verbatim; the filtering summary
\* is there exactly when filterLevel > 0 and lists every dynamically excluded path.
C18_FocusSectionWhenNonEmpty ==
    (extractor = "llm" /\ markdown # <<>>) =>
        /\ SectionsInOrder
        /\ (SectionsOf("focus") # {}) <=> (focus # <<>>)
        /\ \A i \in SectionsOf("focus") : markdown[i].text = focus
        /\ FilterSummaryAsClaimed

\* C18 amended: as stated, but the user-focus section is there exactly when the
\* focus text holds a character that is not white space, and it carries the text
\* without its leading and trailing white space.
C18_FocusSectionWhenNotBlank ==
    (extractor = "llm" /\ markdown # <<>>) =>
        /\ SectionsInOrder
        /\ (SectionsOf("focus") # {}) <=> (\E k \in 1..Len(focus) : focus[k] \notin WhiteSpace)
        /\ \A i \in SectionsOf("focus") :
               /\ markdown[i].text # <<>>
               /\ markdown[i].text[1] \notin WhiteSpace
               /\ markdown[i].text[Len(markdown[i].text)] \notin WhiteSpace
               /\ \E a, b \in 0..Len(focus) :
                      /\ focus = [k \in 1..a |-> focus[k]] \o markdown[i].text
                                     \o [k \in 1..b |-> focus[Len(focus) - b + k]]
                      /\ \A k \in 1..a : focus[k] \in WhiteSpace
                      /\ \A k \in 1..b : focus[Len(focus) - b + k] \in WhiteSpace
        /\ FilterSummaryAsClaimed

\* a document with all five sections, composed for a focus text between blanks
C18_Witness ==
    /\ extractor = "llm" /\ Len(markdown) = 5
    /\ focus = <<" ", "w", " ">>
    /\ llmFilterResult.excludedFiles # <<>>

(***************************************************************************)
(* C19                                                                     *)
(***************************************************************************)
\* the root entries that are regular files with a markdown extension
MarkdownAtRoot ==
    {i \in 1..Len(rootEntries) :
        rootEntries[i].isFile /\ EndsWith(ToLowerCase(rootEntries[i].name), MdSuffix)}

\* the file whose content step 1 returned as the root README
ReadAsReadme ==
    {i \in MarkdownAtRoot :
        /\ rootEntries[i].name = ReadmeName
        /\ rootEntries[i].readable
        /\ ~context.readmeContent.null}

MdFileNames == {context.mdFiles[k].name : k \in 1..Len(context.mdFiles)}

\* C19: the other markdown files returned by readAdditionalContext are the regular
\* root files with a markdown extension, all but the one read as the root README in
\* step 1, so that each of them is read by one of the two steps.  Files that cannot
\* be read, names carrying a static pattern and a root that cannot be listed are left
\* out of the requirement.
C19_OtherMarkdownFilesAllRead ==
    (context.done /\ context.rootListed) =>
        /\ MdFileNames \subseteq
               {rootEntries[i].name : i \in MarkdownAtRoot \ ReadAsReadme}
        /\ \A i \in MarkdownAtRoot \ ReadAsReadme :
               (rootEntries[i].readable /\ ~IncludesStaticPattern(rootEntries[i].name))
                   => rootEntries[i].name \in MdFileNames

\* readAdditionalContext does return the markdown files whose lower-cased name is
\* not readme.md
OtherMarkdownFilesReadUnlessNamedReadme ==
    (context.done /\ context.rootListed) =>
        /\ MdFileNames \subseteq
               {rootEntries[i].name : i \in MarkdownAtRoot \ ReadAsReadme}
        /\ \A i \in MarkdownAtRoot :
               ( /\ rootEntries[i].readable
                 /\ ~IncludesStaticPattern(rootEntries[i].name)
                 /\ ToLowerCase(rootEntries[i].name) # LowerReadmeName )
                   => rootEntries[i].name \in MdFileNames

(***************************************************************************)
(* C20                                                                     *)
(***************************************************************************)
\* the positions where a block comment of s may start: a "/*" with a "*/" after it
BlockStarts(s) ==
    {i \in 1..(Len(s) - 1) :
        s[i] = "/" /\ s[i + 1] = "*" /\ FindBlockEnd(s, i + 2) # 0}

\* the first block comment of s: the text before it, its body and the text after the
\* first "*/" that follows its "/*"
FirstBlock(s) ==
    LET i == CHOOSE i \in BlockStarts(s) : \A k \in BlockStarts(s) : i <= k
        j == FindBlockEnd(s, i + 2)
    IN  [before |-> SubSeq(s, 1, i - 1),
         body   |-> SubSeq(s, i + 2, j - 1),
         after  |-> SubSeq(s, j + 2, Len(s))]

HasCommentStarter(s) == \E i \in 1..Len(s) : s[i] \in {"/", "#"}

HasLineCommentStarter(s) ==
    \/ \E i \in 1..Len(s) : s[i] = "#"
    \/ \E i \in 1..(Len(s) - 1) : s[i] = "/" /\ s[i + 1] = "/"

\* C20: stripComments removes block comments before line comments.  The first block
\* of a text, which ends at the first "*/" after its "/*", is removed whole whatever
\* its body holds: the result is that of the text without the block (unless joining
\* the two sides writes a new "/*"), and when the two sides hold no comment, they are
\* returned in full less their empty lines, so a "//" or "#" inside the block never
\* truncates what follows the "*/".
C20_BlocksRemovedBeforeLineComments ==
    (stripped.done /\ BlockStarts(text) # {}) =>
        LET block == FirstBlock(text)
            joined == block.before \o block.after
            newOpener == /\ block.before # <<>> /\ block.after # <<>>
                         /\ block.before[Len(block.before)] = "/"
                         /\ Head(block.after) = "*"
        IN  /\ ~newOpener => stripped.value = stripComments(joined)
            /\ ~HasCommentStarter(joined) => stripped.value = RemoveEmptyLines(joined, 1)

\* a block whose body holds a line-comment starter, followed on its line by text
C20_Witness ==
    /\ stripped.done
    /\ BlockStarts(text) # {}
    /\ HasLineCommentStarter(FirstBlock(text).body)
    /\ FirstBlock(text).after = <<"x">>
    /\ ~HasCommentStarter(FirstBlock(text).before)
    /\ stripped.value = FirstBlock(text).before \o <<"x">>

(***************************************************************************)
(* C21                                                                     *)
(***************************************************************************)
\* the positions where a line of s starts; the empty rest after a final line
\* terminator is not a line
LineStarts(s) == {i \in 1..Len(s) : AtLineStart(s, i)}

\* the line of s that starts at i is empty or holds white space only
BlankLineAt(s, i) == \A k \in i..(LineEnd(s, i) - 1) : s[k] \in WhiteSpace

\* C21: the output of stripComments holds no empty line and no line of white space
\* only, the last line of the text included.
C21_NoBlankLineLeft ==
    stripped.done => \A i \in LineStarts(stripped.value) : ~BlankLineAt(stripped.value, i)

\* the blank lines that stripComments leaves are last lines with no line terminator
BlankLineLeftOnlyUnterminated ==
    stripped.done =>
        \A i \in LineStarts(stripped.value) :
            BlankLineAt(stripped.value, i) =>
                LineEnd(stripped.value, i) = Len(stripped.value) + 1

(***************************************************************************)
(* C22                                                                     *)
(***************************************************************************)
\* the lines of the structure listing that stand for files
FileLines == SelectSeq(structure, LAMBDA l : l.kind = "entry" /\ ~l.isDir)

NoDirectoryUnreadable ==
    /\ rootKind = "dir"
    /\ \A d \in (tree \cup {Root}) \cap unreadable : ~IsDirectory(d)

\* C22: when no directory is unreadable, the file lines of the structure listing and
\* the file entries of the same run are in one-to-one correspondence and in the same
\* order: the k-th entry is the entry of the file of the k-th file line, and no file
\* has two lines or two entries.
C22_ListingAndEntriesAgree ==
    (WalkDone /\ NoDirectoryUnreadable) =>
        /\ Len(fileEntries) = Len(FileLines)
        /\ \A k \in 1..Len(FileLines) :
               fileEntries[k].path = RelativePath(FileLines[k].path)
        /\ \A i, j \in 1..Len(fileEntries) :
               fileEntries[i].path = fileEntries[j].path => i = j

\* both passes are over on a tree with a file at the root, a file in a directory
\* and an entry under a static rule, with no directory unreadable
C22_Witness ==
    /\ WalkDone /\ NoDirectoryUnreadable
    /\ \E i \in 1..Len(fileEntries) : Len(fileEntries[i].path) > 1
    /\ \E n \in tree : UnderStaticRule(n)
    /\ Len(FileLines) >= 1

(***************************************************************************)
(* C23                                                                     *)
(***************************************************************************)
\* the node a relative path names
NodeNamed(relativePath) == SelectSeq(relativePath, LAMBDA t : t # Sep)

\* a suggested path that is statically excluded, names a directory or names no file
\* of the tree
Barren(suggested) ==
    LET node == NodeNamed(PathNormalize(suggested)) IN
        \/ UnderStaticRule(node)
        \/ node \notin tree
        \/ IsDirectory(node)

\* the document is composed
DocumentDone == pc = "save" \/ (pc = "exited" /\ exitCode = 0)

\* the paths that the filtering summary of the document lists as filtered out
SummaryPaths ==
    UNION { Range(markdown[i].paths) :
                i \in {j \in 1..Len(markdown) : markdown[j].sec = "filter"} }

ExcludedEntries == {i \in 1..Len(fileEntries) : fileEntries[i].excludedByLLM}

\* C23: static exclusion takes precedence over dynamic exclusion.  A suggested path
\* that is statically excluded, names a directory or names no file of the tree has no
\* file entry, excluded or included, and is still listed as filtered out in the
\* filtering summary of the document; the entries marked excluded are never more
\* than the suggested paths.
C23_StaticBeforeDynamic ==
    (extractor = "llm" /\ WalkDone) =>
        /\ \A k \in 1..Len(llmFilterResult.excludedFiles) :
               LET suggested == llmFilterResult.excludedFiles[k] IN
                   Barren(suggested) =>
                       /\ EntriesFor(PathNormalize(suggested)) = {}
                       /\ EntriesFor(suggested) = {}
                       /\ DocumentDone => suggested \in SummaryPaths
        /\ Cardinality(ExcludedEntries) <= Len(llmFilterResult.excludedFiles)

\* the document is composed after a suggestion that names a statically excluded file
\* of the tree and a file that gets its excluded entry
C23_Witness ==
    /\ extractor = "llm" /\ DocumentDone
    /\ \E k \in 1..Len(llmFilterResult.excludedFiles) :
           LET node == NodeNamed(PathNormalize(llmFilterResult.excludedFiles[k])) IN
               node \in tree /\ UnderStaticRule(node) /\ ~IsDirectory(node)
    /\ ExcludedEntries # {}
    /\ SummaryPaths # {}

(***************************************************************************)
(* C24                                                                     *)
(***************************************************************************)
\* the comment stripper of the program that runs
Stripper(content) ==
    IF extractor = "llm" THEN stripComments(content) ELSE stripCommentsBasic(content)

StripCallsOf(node) ==
    {i \in 1..Len(fsCalls) : fsCalls[i] = Call("stripComments", node)}

\* the files whose entry is an included one: read, and read without error
IncludedFiles == FilesToRead \ unreadable

\* C24: in both extractors the comment stripper is applied to the included entries,
\* to each once, to nothing else, and only when the remove-comments flag is on: an
\* included entry holds the stripped text of its file with the flag on and the text
\* as read with the flag off, and the placeholder of an excluded entry and the
\* message of a read-error entry are never passed to the stripper.
C24_StripperOnIncludedEntriesOnly ==
    WalkDone =>
        /\ \A i \in 1..Len(fsCalls) :
               fsCalls[i].op = "stripComments" =>
                   deleteComments /\ fsCalls[i].node \in IncludedFiles
        /\ \A n \in IncludedFiles :
               /\ Cardinality(StripCallsOf(n)) = IF deleteComments THEN 1 ELSE 0
               /\ \A i \in EntriesFor(RelativePath(n)) :
                      fileEntries[i].content =
                          IF deleteComments THEN Stripper(FileText(BaseName(n)))
                          ELSE FileText(BaseName(n))
        /\ \A i \in 1..Len(fileEntries) :
               /\ fileEntries[i].excludedByLLM => fileEntries[i].content = ExcludedPlaceholder
               /\ fileEntries[i].error => fileEntries[i].content = ErrorContent

\* the second pass is over with the flag off, on a tree with an included file that
\* holds comments next to an excluded or unreadable one
C24_Witness ==
    /\ WalkDone /\ ~deleteComments
    /\ \E n \in IncludedFiles :
           /\ Stripper(FileText(BaseName(n))) # FileText(BaseName(n))
           /\ EntriesFor(RelativePath(n)) # {}
    /\ \E i \in 1..Len(fileEntries) : fileEntries[i].excludedByLLM \/ fileEntries[i].error

====
